---- MODULE Spec2Model ----
(***************************************************************************)
(* A model of arrow_pd_parser's pandas caster (arrow_pd_parser/caster.py): *)
(* the boolean mapper, the scalar converters, the column caster and the    *)
(* table caster.                                                           *)
(* Further sections model the Arrow schema cast (_arrow_parsers.py), the   *)
(* file format inference (utils.py), the pandas readers (_readers.py) and  *)
(* the text file writer (_writers.py).                                     *)
(*                                                                         *)
(* Text is a sequence of one-character strings, so that str.strip and      *)
(* str.lower are computed.  A cell value is a record [k, s, n]: k is the   *)
(* kind of the Python value, s its text (kinds "str", "date", "datetime"), *)
(* n its number (kind "int"; kind "float" in tenths; kind "bool" 0 or 1;   *)
(* kind "exc" the exception object that convert_to_bool_series returns).   *)
(* A series is [dtype, vals]; a table is [cols, data].                     *)
(***************************************************************************)
EXTENDS Integers, Sequences, FiniteSets, TLC

VARIABLES pc, inp, out, heap, loc, calls, warned

vars == <<pc, inp, out, heap, loc, calls, warned>>

(***************************************************************************)
(* Bounds of the model.                                                    *)
(***************************************************************************)
\* longest generated text handed to the default boolean mapper
MaxLen == 3
\* longest schema handed to the table caster
MaxCols == 2
\* longest column handed to convert_to_bool_series
MaxRows == 2

(***************************************************************************)
(* Text.                                                                   *)
(***************************************************************************)
Upper == <<"A","B","C","D","E","F","G","H","I","J","K","L","M",
           "N","O","P","Q","R","S","T","U","V","W","X","Y","Z">>
Lower == <<"a","b","c","d","e","f","g","h","i","j","k","l","m",
           "n","o","p","q","r","s","t","u","v","w","x","y","z">>
Digit == <<"0","1","2","3","4","5","6","7","8","9">>
WhiteSpace == {" ", "\t"}

\* str.lower on one character
LowerChar(c) ==
    IF \E j \in 1..Len(Upper) : Upper[j] = c
    THEN Lower[CHOOSE j \in 1..Len(Upper) : Upper[j] = c]
    ELSE c

\* str.lower
StrLower(t) == [j \in 1..Len(t) |-> LowerChar(t[j])]

RECURSIVE LStrip(_)
LStrip(t) ==
    IF t # <<>> /\ Head(t) \in WhiteSpace THEN LStrip(Tail(t)) ELSE t

RECURSIVE RStrip(_)
RStrip(t) ==
    IF t # <<>> /\ t[Len(t)] \in WhiteSpace
    THEN RStrip(SubSeq(t, 1, Len(t) - 1))
    ELSE t

\* str.strip
StrStrip(t) == RStrip(LStrip(t))

IsDigit(c) == \E j \in 1..Len(Digit) : Digit[j] = c
DigitVal(c) == (CHOOSE j \in 1..Len(Digit) : Digit[j] = c) - 1
AllDigits(t) == \A j \in 1..Len(t) : IsDigit(t[j])

RECURSIVE DigitsVal(_)
DigitsVal(t) ==
    IF t = <<>> THEN 0
    ELSE 10 * DigitsVal(SubSeq(t, 1, Len(t) - 1)) + DigitVal(t[Len(t)])

RECURSIVE NatText(_)
NatText(m) ==
    IF m < 10 THEN <<Digit[m + 1]>>
    ELSE NatText(m \div 10) \o <<Digit[(m % 10) + 1]>>

(***************************************************************************)
(* Cell values.                                                            *)
(***************************************************************************)
Null == [k |-> "null", s |-> <<>>, n |-> 0]
StrV(t) == [k |-> "str", s |-> t, n |-> 0]
IntV(m) == [k |-> "int", s |-> <<>>, n |-> m]
FloatV(tenths) == [k |-> "float", s |-> <<>>, n |-> tenths]
BoolV(b) == [k |-> "bool", s |-> <<>>, n |-> IF b THEN 1 ELSE 0]
ExcV(m) == [k |-> "exc", s |-> <<>>, n |-> m]
DateV(t) == [k |-> "date", s |-> t, n |-> 0]
DateTimeV(t) == [k |-> "datetime", s |-> t, n |-> 0]
TrueV == BoolV(TRUE)
FalseV == BoolV(FALSE)

\* pd.isna on a scalar
IsNa(v) == v.k = "null"

\* str() of a Python value; a float prints with its one fractional digit
PyStr(v) ==
    CASE v.k = "str" -> v.s
      [] v.k = "int" ->
            IF v.n < 0 THEN <<"-">> \o NatText(-v.n) ELSE NatText(v.n)
      [] v.k = "float" ->
            (IF v.n < 0 THEN <<"-">> ELSE <<>>)
            \o NatText((IF v.n < 0 THEN -v.n ELSE v.n) \div 10)
            \o <<".">>
            \o NatText((IF v.n < 0 THEN -v.n ELSE v.n) % 10)
      [] v.k = "bool" ->
            IF v.n = 1 THEN <<"T","r","u","e">> ELSE <<"F","a","l","s","e">>
      [] v.k = "null" -> <<"n","a","n">>
      [] OTHER -> v.s

\* pd.RangeIndex(n): the row labels 0..n-1
RangeIndex(n) == [j \in 1..n |-> j - 1]

\* pd.Series(vals, dtype=dtype): a new series, labelled by a RangeIndex
Series(dtype, vals) == [dtype |-> dtype, vals |-> vals, index |-> RangeIndex(Len(vals))]

\* the series an elementwise operation on s returns (astype, map,
\* to_numeric, to_datetime, convert_dtypes): it keeps the index of s
Like(s, dtype, vals) == [dtype |-> dtype, vals |-> vals, index |-> s.index]

(***************************************************************************)
(* The boolean mapper.                                                     *)
(***************************************************************************)
\* keys of basic_map that map to True
TrueTokens ==
    { <<"y","e","s">>, <<"t","r","u","e">>, <<"t">>, <<"1">>, <<"1",".","0">> }

\* keys of basic_map that map to False
FalseTokens ==
    { <<"n","o">>, <<"f","a","l","s","e">>, <<"f">>, <<"0">>, <<"0",".","0">> }

\* a mapping table without the key "true"
basic_map_without_true(t) ==
    IF t \in { <<"y","e","s">>, <<"t">>, <<"1">>, <<"1",".","0">> } THEN TrueV
    ELSE IF t \in FalseTokens THEN FalseV
    ELSE Null

\* basic_map.get(t, np.nan); the keys "" and None map to np.nan themselves
basic_map(t) ==
    IF t \in TrueTokens THEN TrueV
    ELSE IF t \in FalseTokens THEN FalseV
    ELSE Null

\* t is a key of basic_map
InBasicMap(t) == t \in TrueTokens \cup FalseTokens \cup {<<>>}

Returned(v) == [raised |-> FALSE, val |-> v, msg |-> <<>>]
RaisedValueError(t) == [raised |-> TRUE, val |-> Null, msg |-> t]

\* str(s).strip() without .lower()
s_str_not_lowered(v) == StrStrip(PyStr(v))

\* the text the mapper looks up: str(s).strip().lower()
s_str(v) == StrLower(StrStrip(PyStr(v)))

\* the body of _default_str_bool_mapper once s_str is computed; a policy
\* other than "coerce" and "raise" falls off the end, which returns None
MapText(isna, t, bool_errors) ==
    IF isna \/ t = <<>> THEN Returned(Null)
    ELSE IF bool_errors = "coerce" THEN Returned(basic_map(t))
    ELSE IF bool_errors = "raise" THEN
        IF InBasicMap(t) THEN Returned(basic_map(t)) ELSE RaisedValueError(t)
    ELSE Returned(Null)

\* _default_str_bool_mapper(s, bool_errors)
_default_str_bool_mapper(v, bool_errors) == MapText(IsNa(v), s_str(v), bool_errors)

\* the message of the first row whose mapping raised, no other
CastingErrors_first_only(r, j) ==
    IF \E l \in 1..j : r[l].raised
    THEN <<r[CHOOSE l \in 1..j : r[l].raised /\ \A l2 \in 1..(l - 1) : ~r[l2].raised].msg>>
    ELSE <<>>

\* casting_errors: the messages of the rows 1..j whose mapping raised
RECURSIVE CastingErrors(_, _)
CastingErrors(r, j) ==
    IF j = 0 THEN <<>>
    ELSE IF r[j].raised THEN Append(CastingErrors(r, j - 1), r[j].msg)
    ELSE CastingErrors(r, j - 1)

\* the end of check_bool_mapping_errors, r the outcome of func on each row:
\* wrapper stores NaN for a row that raised, and one ValueError is raised
\* after the last row if any did
Checked(series, r, casting_errors) ==
    [raised |-> casting_errors # <<>>,
     result |-> Like(series, "object", [j \in 1..Len(r) |-> r[j].val]),
     casting_errors |-> casting_errors]

MapRows(vals, bool_errors) ==
    [j \in 1..Len(vals) |-> _default_str_bool_mapper(vals[j], bool_errors)]

CheckedRows(series, r) == Checked(series, r, CastingErrors(r, Len(r)))

\* check_bool_mapping_errors(series, _default_str_bool_mapper, bool_errors)
check_bool_mapping_errors(series, bool_errors) ==
    CheckedRows(series, MapRows(series.vals, bool_errors))

NumericDtypes == {"int64", "float64", "Int64"}

\* _infer_bool_type(s)
_infer_bool_type(s) ==
    IF s.dtype \in {"bool", "boolean"} THEN s.dtype
    ELSE IF s.dtype \in NumericDtypes THEN "numeric"
    ELSE IF \A j \in 1..Len(s.vals) : s.vals[j].k = "bool" \/ IsNa(s.vals[j])
         THEN "bool_object"
    ELSE "str_object"

\* Series.astype(str): every value, a null too, becomes its text
AsTypeStr(s) ==
    Like(s, "object", [j \in 1..Len(s.vals) |-> StrV(PyStr(s.vals[j]))])

\* Series.map(bool_map) for a dict: a value that is no key becomes NaN
MapDict(s, bool_map) ==
    Like(s, "object",
           [j \in 1..Len(s.vals) |->
               IF s.vals[j].k = "str" /\ s.vals[j].s \in DOMAIN bool_map.map
               THEN bool_map.map[s.vals[j].s]
               ELSE Null])

\* Series.convert_dtypes(convert_boolean=True, all other conversions off):
\* bool, and object holding only booleans and nulls, become "boolean"
ConvertDtypesBoolean(s) ==
    IF s.dtype = "bool" THEN Like(s, "boolean", s.vals)
    ELSE IF /\ s.dtype = "object"
            /\ \E j \in 1..Len(s.vals) : s.vals[j].k = "bool"
            /\ \A j \in 1..Len(s.vals) : s.vals[j].k = "bool" \/ IsNa(s.vals[j])
         THEN Like(s, "boolean", s.vals)
    ELSE s

\* what a converter hands back: a value (a series, or for the boolean
\* converter possibly the caught exception object) or a raised exception
Ret(s) == [raised |-> FALSE, exc |-> "", series |-> s, retexc |-> FALSE, errs |-> <<>>]
RetExc(s, errs) ==
    [raised |-> FALSE, exc |-> "", series |-> s, retexc |-> TRUE, errs |-> errs]
Raise(e, s) == [raised |-> TRUE, exc |-> e, series |-> s, retexc |-> FALSE, errs |-> <<>>]

NoBoolMap == [none |-> TRUE, map |-> <<>>]

\* the try statement of convert_to_bool_series, chk the outcome of
\* check_bool_mapping_errors: except ValueError as e: print(e); return e
TryCheck(s, chk) ==
    IF chk.raised THEN RetExc(s, chk.casting_errors)
    ELSE Ret(ConvertDtypesBoolean(chk.result))

\* the mapping of a str_object or numeric column, s already text
MapBool(s, bool_map, bool_errors) ==
    IF bool_map.none
    THEN TryCheck(s, check_bool_mapping_errors(s, bool_errors))
    ELSE Ret(ConvertDtypesBoolean(MapDict(s, bool_map)))

\* convert_to_bool_series after t = _infer_bool_type(s)
ConvertBoolTyped(t, s, bool_map, bool_errors) ==
    IF t \in {"str_object", "numeric"}
    THEN MapBool(IF t = "numeric" THEN AsTypeStr(s) ELSE s, bool_map, bool_errors)
    ELSE Ret(ConvertDtypesBoolean(s))

\* convert_to_bool_series(s, pd_boolean, bool_map, bool_errors)
convert_to_bool_series(s, pd_boolean, bool_map, bool_errors) ==
    IF ~pd_boolean THEN Raise("NotImplementedError", s)
    ELSE ConvertBoolTyped(_infer_bool_type(s), s, bool_map, bool_errors)

(***************************************************************************)
(* The numeric and string converters.  Numeric text in the model has at    *)
(* most one fractional digit, the precision of a "float" value.            *)
(***************************************************************************)
NotNumber == [ok |-> FALSE, val |-> Null]

\* the number an unsigned text denotes: digits or digits.digit
ParseUnsigned(u, sgn) ==
    IF u # <<>> /\ AllDigits(u)
    THEN [ok |-> TRUE, val |-> IntV(sgn * DigitsVal(u))]
    ELSE IF /\ Len(u) >= 3
            /\ u[Len(u) - 1] = "."
            /\ AllDigits(SubSeq(u, 1, Len(u) - 2))
            /\ IsDigit(u[Len(u)])
    THEN [ok |-> TRUE,
          val |-> FloatV(sgn * (10 * DigitsVal(SubSeq(u, 1, Len(u) - 2))
                                + DigitVal(u[Len(u)])))]
    ELSE NotNumber

\* the number a text denotes for pd.to_numeric
ParseNumber(t) ==
    IF t # <<>> /\ t[1] = "-" THEN ParseUnsigned(Tail(t), -1) ELSE ParseUnsigned(t, 1)

\* pd.to_numeric on one element: a null and the empty string are NaN
ToNumericValue(v) ==
    CASE v.k = "null" -> [ok |-> TRUE, val |-> Null]
      [] v.k \in {"int", "float"} -> [ok |-> TRUE, val |-> v]
      [] v.k = "bool" -> [ok |-> TRUE, val |-> IntV(v.n)]
      [] v.k = "str" ->
            IF v.s = <<>> THEN [ok |-> TRUE, val |-> Null] ELSE ParseNumber(v.s)
      [] OTHER -> NotNumber

\* a value as stored in a float64 column
AsFloat(v) == IF v.k = "int" THEN FloatV(10 * v.n) ELSE v

\* the end of pd.to_numeric, r the outcome of parsing each element: an
\* unparsable element raises ("raise"), becomes NaN ("coerce") or has the
\* input returned unchanged ("ignore"); the result is int64 when every
\* element is an integer, float64 otherwise
Parsed(s, r, num_errors) ==
    IF (\E j \in 1..Len(r) : ~r[j].ok) /\ num_errors = "raise"
    THEN Raise("ValueError", s)
    ELSE IF (\E j \in 1..Len(r) : ~r[j].ok) /\ num_errors # "coerce" THEN Ret(s)
    ELSE IF \A j \in 1..Len(r) : r[j].ok /\ r[j].val.k = "int"
    THEN Ret(Like(s, "int64", [j \in 1..Len(r) |-> r[j].val]))
    ELSE Ret(Like(s, "float64",
                    [j \in 1..Len(r) |-> IF r[j].ok THEN AsFloat(r[j].val) ELSE Null]))

\* pd.to_numeric(s, errors=num_errors): a numeric series is returned as it is
to_numeric(s, num_errors) ==
    IF s.dtype \in NumericDtypes THEN Ret(s)
    ELSE Parsed(s, [j \in 1..Len(s.vals) |-> ToNumericValue(s.vals[j])], num_errors)

\* Series.astype(pd.Int64Dtype()): a float that is no whole number cannot be
\* cast safely (TypeError), nor can the text left by errors="ignore"
AsTypeInt64(s) ==
    IF s.dtype \in {"int64", "Int64"} THEN Ret(Like(s, "Int64", s.vals))
    ELSE IF s.dtype = "float64" THEN
        IF \E j \in 1..Len(s.vals) : s.vals[j].k = "float" /\ s.vals[j].n % 10 # 0
        THEN Raise("TypeError", s)
        ELSE Ret(Like(s, "Int64",
                        [j \in 1..Len(s.vals) |->
                            IF s.vals[j].k = "float"
                            THEN IntV(s.vals[j].n \div 10)
                            ELSE s.vals[j]]))
    ELSE Raise("ValueError", s)

\* Series.astype(np.float64)
AsTypeFloat64(s) ==
    IF s.dtype \in NumericDtypes
    THEN Ret(Like(s, "float64", [j \in 1..Len(s.vals) |-> AsFloat(s.vals[j])]))
    ELSE Raise("ValueError", s)

\* a second statement that casts whatever pd_integer says
ThenInt64_always(r, pd_integer) == IF r.raised THEN r ELSE AsTypeInt64(r.series)

\* the second statement of convert_to_integer_series, r the outcome of the first
ThenInt64(r, pd_integer) ==
    IF r.raised THEN r
    ELSE IF pd_integer THEN AsTypeInt64(r.series)
    ELSE r

\* convert_to_integer_series(s, pd_integer, num_errors)
convert_to_integer_series(s, pd_integer, num_errors) ==
    ThenInt64(to_numeric(s, num_errors), pd_integer)

\* the second statement of convert_to_float_series, r the outcome of the first
ThenFloat64(r) == IF r.raised THEN r ELSE AsTypeFloat64(r.series)

\* convert_to_float_series(s, num_errors)
convert_to_float_series(s, num_errors) == ThenFloat64(to_numeric(s, num_errors))

\* convert_to_string_series(s, pd_string): the nullable string type keeps a
\* null, astype(str) turns it into text
convert_to_string_series(s, pd_string) ==
    IF pd_string
    THEN Ret(Like(s, "string",
                    [j \in 1..Len(s.vals) |->
                        IF IsNa(s.vals[j]) THEN Null ELSE StrV(PyStr(s.vals[j]))]))
    ELSE Ret(AsTypeStr(s))

(***************************************************************************)
(* The timestamp converters.  A format is the text of a strptime pattern   *)
(* built from %Y %m %d %H %M %S and literal characters; <<>> stands for    *)
(* None.  A parsed value carries its ISO text.                             *)
(***************************************************************************)
DateFormat == <<"%","Y","-","%","m","-","%","d">>
DateTimeFormat == DateFormat \o <<" ","%","H",":","%","M",":","%","S">>

NoFields == [ok |-> FALSE, Y |-> 0, m |-> 0, d |-> 0, H |-> 0, M |-> 0, S |-> 0]
ZeroFields == [ok |-> TRUE, Y |-> 1900, m |-> 1, d |-> 1, H |-> 0, M |-> 0, S |-> 0]

DirectiveWidth(c) == IF c = "Y" THEN 4 ELSE 2

DirectiveOk(c, m) ==
    CASE c = "Y" -> TRUE
      [] c = "m" -> 1 <= m /\ m <= 12
      [] c = "d" -> 1 <= m /\ m <= 31
      [] c = "H" -> m <= 23
      [] c \in {"M", "S"} -> m <= 59
      [] OTHER -> FALSE

\* strptime(t, fmt), exact match, onto the fields parsed so far
RECURSIVE Strptime(_, _, _)
Strptime(fmt, t, acc) ==
    IF fmt = <<>> THEN (IF t = <<>> THEN acc ELSE NoFields)
    ELSE IF fmt[1] = "%" /\ Len(fmt) >= 2 THEN
        IF /\ Len(t) >= DirectiveWidth(fmt[2])
           /\ AllDigits(SubSeq(t, 1, DirectiveWidth(fmt[2])))
           /\ DirectiveOk(fmt[2], DigitsVal(SubSeq(t, 1, DirectiveWidth(fmt[2]))))
        THEN Strptime(SubSeq(fmt, 3, Len(fmt)),
                      SubSeq(t, DirectiveWidth(fmt[2]) + 1, Len(t)),
                      [acc EXCEPT ![fmt[2]] =
                          DigitsVal(SubSeq(t, 1, DirectiveWidth(fmt[2])))])
        ELSE NoFields
    ELSE IF t # <<>> /\ t[1] = fmt[1]
         THEN Strptime(Tail(fmt), Tail(t), acc)
         ELSE NoFields

Pad2(m) == IF m < 10 THEN <<"0">> \o NatText(m) ELSE NatText(m)
Pad4(m) ==
    (IF m < 10 THEN <<"0","0","0">>
     ELSE IF m < 100 THEN <<"0","0">>
     ELSE IF m < 1000 THEN <<"0">>
     ELSE <<>>) \o NatText(m)

IsoDate(f) == Pad4(f.Y) \o <<"-">> \o Pad2(f.m) \o <<"-">> \o Pad2(f.d)
IsoDateTime(f) ==
    IsoDate(f) \o <<" ">> \o Pad2(f.H) \o <<":">> \o Pad2(f.M) \o <<":">> \o Pad2(f.S)

\* the rows of s that hold a text
Texts(s) == {j \in 1..Len(s.vals) : s.vals[j].k = "str" /\ s.vals[j].s # <<>>}

\* the format pd.to_datetime infers when it is given none: the ISO format
\* that the first text of the column matches
GuessFormat(s) ==
    IF Texts(s) = {} THEN DateTimeFormat
    ELSE IF Strptime(DateFormat,
                     s.vals[CHOOSE j \in Texts(s) : \A l \in Texts(s) : j <= l].s,
                     ZeroFields).ok
    THEN DateFormat
    ELSE DateTimeFormat

\* a parsed text as a datetime
FromFields(f) ==
    IF f.ok THEN [ok |-> TRUE, val |-> DateTimeV(IsoDateTime(f))] ELSE NotNumber

\* pd.to_datetime on one element under the format
ToDatetimeValue(v, fmt) ==
    CASE v.k = "null" -> [ok |-> TRUE, val |-> Null]
      [] v.k = "datetime" -> [ok |-> TRUE, val |-> v]
      [] v.k = "date" ->
            [ok |-> TRUE, val |-> DateTimeV(v.s \o <<" ","0","0",":","0","0",":","0","0">>)]
      [] v.k = "str" ->
            IF v.s = <<>> THEN [ok |-> TRUE, val |-> Null]
            ELSE FromFields(Strptime(fmt, v.s, ZeroFields))
      [] OTHER -> NotNumber

\* the end of pd.to_datetime, r the outcome of parsing each element
ParsedDates(s, r, ts_errors) ==
    IF (\E j \in 1..Len(r) : ~r[j].ok) /\ ts_errors = "raise"
    THEN Raise("ValueError", s)
    ELSE IF (\E j \in 1..Len(r) : ~r[j].ok) /\ ts_errors # "coerce" THEN Ret(s)
    ELSE Ret(Like(s, "datetime64[ns]",
                    [j \in 1..Len(r) |-> IF r[j].ok THEN r[j].val ELSE Null]))

ToDatetimeWith(s, fmt, ts_errors) ==
    ParsedDates(s, [j \in 1..Len(s.vals) |-> ToDatetimeValue(s.vals[j], fmt)], ts_errors)

\* pd.to_datetime(s, format=fmt, errors=ts_errors)
to_datetime(s, fmt, ts_errors) ==
    ToDatetimeWith(s, IF fmt = <<>> THEN GuessFormat(s) ELSE fmt, ts_errors)

\* _convert_str_to_ns_timestamp_series(s, ts_errors, str_datetime_format)
_convert_str_to_ns_timestamp_series(s, ts_errors, str_datetime_format) ==
    to_datetime(s, str_datetime_format, ts_errors)

\* s_new.index = original_index
RestoreIndex(s_new, original_index) == [s_new EXCEPT !.index = original_index]

\* datetime objects that keep the time of day in a date column
ToDatetimeObjects_keeps_time(s, r, is_date) ==
    IF r.raised THEN r
    ELSE IF r.series.dtype # "datetime64[ns]" THEN Raise("AttributeError", s)
    ELSE Ret(RestoreIndex(
                Series("object",
                       [j \in 1..Len(s.vals) |->
                           IF IsNa(r.series.vals[j]) THEN Null ELSE r.series.vals[j]]),
                s.index))

\* _convert_str_to_datetime_obj_series after pd.to_datetime, r its outcome:
\* .dt.to_pydatetime() (an AttributeError on a series that errors="ignore"
\* left as it was) put into a new series, None for a null, .date() for a
\* date column, and the index of s put back
ToDatetimeObjects(s, r, is_date) ==
    IF r.raised THEN r
    ELSE IF r.series.dtype # "datetime64[ns]" THEN Raise("AttributeError", s)
    ELSE Ret(RestoreIndex(
                Series("object",
                       [j \in 1..Len(s.vals) |->
                           IF IsNa(r.series.vals[j]) THEN Null
                           ELSE IF is_date
                           THEN DateV(SubSeq(r.series.vals[j].s, 1, 10))
                           ELSE r.series.vals[j]]),
                s.index))

\* a default format that does not look at is_date
ObjFormat_datetime_only(is_date, str_datetime_format) ==
    IF str_datetime_format = <<>> THEN DateTimeFormat ELSE str_datetime_format

\* the format _convert_str_to_datetime_obj_series parses with
ObjFormat(is_date, str_datetime_format) ==
    IF str_datetime_format = <<>>
    THEN (IF is_date THEN DateFormat ELSE DateTimeFormat)
    ELSE str_datetime_format

\* _convert_str_to_datetime_obj_series(s, is_date, ts_errors, str_datetime_format)
_convert_str_to_datetime_obj_series(s, is_date, ts_errors, str_datetime_format) ==
    ToDatetimeObjects(
        s, to_datetime(s, ObjFormat(is_date, str_datetime_format), ts_errors), is_date)

\* a converter that builds datetime objects for every pd_type but pd_timestamp
convert_str_to_timestamp_series_no_period(s, is_date, pd_type, ts_errors, str_datetime_format) ==
    IF pd_type = "pd_timestamp"
    THEN _convert_str_to_ns_timestamp_series(s, ts_errors, str_datetime_format)
    ELSE _convert_str_to_datetime_obj_series(s, is_date, ts_errors, str_datetime_format)

\* convert_str_to_timestamp_series(s, is_date, pd_type, ts_errors, fmt)
convert_str_to_timestamp_series(s, is_date, pd_type, ts_errors, str_datetime_format) ==
    IF pd_type = "pd_timestamp"
    THEN _convert_str_to_ns_timestamp_series(s, ts_errors, str_datetime_format)
    ELSE IF pd_type = "datetime_object"
    THEN _convert_str_to_datetime_obj_series(s, is_date, ts_errors, str_datetime_format)
    ELSE IF pd_type = "pd_period" THEN Raise("NotImplementedError", s)
    ELSE Raise("ValueError", s)

(***************************************************************************)
(* The column caster.  A column descriptor is                              *)
(* [name, type, type_category, datetime_format, num_errors, bool_errors];  *)
(* "" (<<>> for the format) stands for a key the descriptor does not have. *)
(* Descriptors of the model always carry their type_category.              *)
(***************************************************************************)
_allowed_type_categories ==
    {"integer", "boolean", "string", "float", "timestamp", "struct", "list"}

\* a column caster that knows no complex type category
complex_type_categories_none == {}

complex_type_categories == {"struct", "list"}

\* metacol["type"].startswith("date")
IsDateType(type) == type \in {"date32", "date64"}

\* the policy flags of a call, the defaults of cast_pandas_column_to_schema
DefaultFlags ==
    [pd_integer |-> TRUE, pd_string |-> TRUE, pd_boolean |-> TRUE,
     pd_date_type |-> "datetime_object", pd_timestamp_type |-> "datetime_object",
     ts_errors |-> "raise", bool_map |-> NoBoolMap]

\* the timestamp branch: is_date picks pd_date_type or pd_timestamp_type
ConvertTimestamp(s, metacol, flags, is_date) ==
    convert_str_to_timestamp_series(
        s, is_date, IF is_date THEN flags.pd_date_type ELSE flags.pd_timestamp_type,
        flags.ts_errors, metacol.datetime_format)

\* an else branch that leaves the column as it is
UnknownCategory_passed(s, metacol) == Ret(s)

\* the else branch of the try block: raise ValueError("meta type_category
\* must be one of ... Got <type_category> from column <name>")
UnknownCategory(s, metacol) == Raise("ValueError", s)

\* the body of the try block of cast_pandas_column_to_schema
Convert(s, metacol, flags, num_errors, bool_errors) ==
    CASE metacol.type_category = "integer" ->
            convert_to_integer_series(s, flags.pd_integer, num_errors)
      [] metacol.type_category = "float" -> convert_to_float_series(s, num_errors)
      [] metacol.type_category = "boolean" ->
            convert_to_bool_series(s, flags.pd_boolean, flags.bool_map, bool_errors)
      [] metacol.type_category = "string" -> convert_to_string_series(s, flags.pd_string)
      [] metacol.type_category = "timestamp" ->
            IF metacol.type = "" THEN Raise("KeyError", s)
            ELSE ConvertTimestamp(s, metacol, flags, IsDateType(metacol.type))
      [] metacol.type_category \in complex_type_categories -> Ret(s)
      [] OTHER -> UnknownCategory(s, metacol)

NoMsg == [name |-> "", type_category |-> "", type |-> ""]

\* a column caster that lets the converter's own exception through
Wrapped_cause_passed(r, metacol) ==
    [raised |-> r.raised,
     exc |-> r.exc,
     cause |-> r.exc,
     msg |-> NoMsg,
     value |-> r.series,
     retexc |-> r.retexc,
     errs |-> r.errs,
     warned |-> metacol.type_category \in {"struct", "list"}]

\* the except clause and the return of cast_pandas_column_to_schema, r the
\* outcome of the try block: value is what is returned (retexc: the
\* exception object convert_to_bool_series returned in place of a series),
\* warned says that warnings.warn was called; a PandasCastError carries the
\* descriptor's name, type_category and type in its message
Wrapped(r, metacol) ==
    [raised |-> r.raised,
     exc |-> IF r.raised THEN "PandasCastError" ELSE "",
     cause |-> r.exc,
     msg |-> IF r.raised
             THEN [name |-> metacol.name,
                   type_category |-> metacol.type_category,
                   type |-> metacol.type]
             ELSE NoMsg,
     value |-> r.series,
     retexc |-> r.retexc,
     errs |-> r.errs,
     warned |-> metacol.type_category \in complex_type_categories]

\* cast_pandas_column_to_schema(s, metacol, ..., num_errors, bool_errors)
cast_pandas_column_to_schema(s, metacol, flags, num_errors, bool_errors) ==
    Wrapped(Convert(s, metacol, flags, num_errors, bool_errors), metacol)

(***************************************************************************)
(* Tables.  A table is [cols, data]: the column names in order and the     *)
(* series of each.  heap holds the table objects, so that the caller's     *)
(* table and the caster's working copy are told apart.                     *)
(***************************************************************************)
Range(q) == {q[j] : j \in 1..Len(q)}

EmptyTable == [cols |-> <<>>, data |-> <<>>]

\* name in df.columns
HasCol(tb, name) == name \in Range(tb.cols)

\* df[name] = s
SetCol(tb, name, s) ==
    [cols |-> IF HasCol(tb, name) THEN tb.cols ELSE Append(tb.cols, name),
     data |-> [x \in Range(tb.cols) \cup {name} |-> IF x = name THEN s ELSE tb.data[x]]]

\* a selection that keeps the columns in the order of the table
SelectCols_in_table_order(tb, cols) ==
    [cols |-> SelectSeq(tb.cols, LAMBDA x : x \in Range(cols)),
     data |-> [x \in Range(cols) |-> tb.data[x]]]

\* df[cols]
SelectCols(tb, cols) ==
    [cols |-> cols, data |-> [x \in Range(cols) |-> tb.data[x]]]

\* df = df: the caller's table object itself
df_not_copied(h, ref) == [heap |-> h, ref |-> ref]

\* df = df.copy(): a new table object with the same columns
df_copy(h, ref) == [heap |-> Append(h, h[ref]), ref |-> Len(h) + 1]

\* the series s as a column of a table with the row labels index: pandas
\* aligns on the labels, a label s does not have gets NaN
Aligned(s, index) ==
    [dtype |-> s.dtype,
     vals |-> [j \in 1..Len(index) |->
                 IF \E l \in 1..Len(s.index) : s.index[l] = index[j]
                 THEN s.vals[CHOOSE l \in 1..Len(s.index) : s.index[l] = index[j]]
                 ELSE Null],
     index |-> index]

\* what assigning the caster's return value to df[name] stores, old the
\* column so far: the series aligned on the table's index, or the returned
\* exception object in every row
Assigned(r, old) ==
    IF r.retexc THEN Like(old, "object", [j \in 1..Len(old.vals) |-> ExcV(Len(r.errs))])
    ELSE Aligned(r.value, old.index)

(***************************************************************************)
(* The table caster.                                                       *)
(***************************************************************************)
NoErrorMap == [none |-> TRUE, map |-> <<>>]

\* get_error_value(col_metadata, map_dict, default_value, error_type_key)
get_error_value(col_metadata, map_dict, default_value, error_type_key) ==
    IF col_metadata[error_type_key] # "" THEN col_metadata[error_type_key]
    ELSE IF ~map_dict.none /\ DOMAIN map_dict.map # {} THEN
        IF col_metadata.name \in DOMAIN map_dict.map
        THEN map_dict.map[col_metadata.name]
        ELSE default_value
    ELSE default_value

\* the num_errors the loop body holds after its first if statement
ResolveNumErrors(c, num_error_map, num_errors) ==
    IF num_errors # "raise"
    THEN get_error_value(c, num_error_map, num_errors, "num_errors")
    ELSE num_errors

\* the bool_errors the loop body holds after its second if statement
ResolveBoolErrors(c, bool_error_map, bool_errors) ==
    IF bool_errors # "coerce"
    THEN get_error_value(c, bool_error_map, bool_errors, "bool_errors")
    ELSE bool_errors

\* every column of the schema
meta_cols_all(meta, ignore_columns, drop_columns) == meta.columns

\* meta_cols_to_convert
meta_cols_to_convert(meta, ignore_columns, drop_columns) ==
    SelectSeq(meta.columns,
              LAMBDA c : /\ c.name \notin ignore_columns \cup drop_columns
                         /\ c.name \notin meta.partitions)

\* the names of the descriptors of a list
NamesOf(columns) == [j \in 1..Len(columns) |-> columns[j].name]

\* final_cols
final_cols(meta, drop_columns) ==
    NamesOf(SelectSeq(meta.columns,
                      LAMBDA c : /\ c.name \notin drop_columns
                                 /\ c.name \notin meta.partitions))

NoOut == [kind |-> "none", exc |-> "", msg |-> NoMsg, table |-> EmptyTable]
\* a failure whose message names nothing
Failed_unnamed(exc, msg) ==
    [kind |-> "raised", exc |-> exc, msg |-> NoMsg, table |-> EmptyTable]

Failed(exc, msg) == [kind |-> "raised", exc |-> exc, msg |-> msg, table |-> EmptyTable]
Succeeded(tb) == [kind |-> "returned", exc |-> "", msg |-> NoMsg, table |-> tb]

NoLoc == [df |-> 0, meta |-> <<>>, todo |-> <<>>, i |-> 0,
          num_errors |-> "", bool_errors |-> ""]

\* the locals of cast_pandas_table_to_schema when its loop starts, cp the
\* copy of the table
Locals(a, cp) ==
    [df |-> cp.ref,
     meta |-> a.metadata,
     todo |-> meta_cols_to_convert(a.metadata, a.ignore_columns, a.drop_columns),
     i |-> 1,
     num_errors |-> a.num_errors,
     bool_errors |-> a.bool_errors]

\* the arguments of a call: the keyword arguments a and the table df as
\* the caller holds it when the call is made
Called(a, tb) == [df |-> tb] @@ a

EnterWith(a, tb, cp) ==
    /\ inp' = Called(a, tb)
    /\ heap' = cp.heap
    /\ loc' = Locals(a, cp)
    /\ pc' = "loop"
    /\ UNCHANGED <<out, calls, warned>>

\* cast_pandas_table_to_schema up to its loop: the defaults of the column
\* lists, the copy of the metadata and of the table, the columns to convert
Enter(a, tb) ==
    /\ pc = "idle"
    /\ a.metadata.kind \in {"dict", "Metadata"}
    /\ EnterWith(a, tb, df_copy(<<tb>>, 1))

\* the metadata checks that fail: a dict without "columns" (KeyError), a
\* value that is neither a Metadata nor a dict (ValueError)
EnterInvalid(a, tb) ==
    /\ pc = "idle"
    /\ a.metadata.kind \notin {"dict", "Metadata"}
    /\ inp' = Called(a, tb)
    /\ heap' = <<tb>>
    /\ out' = Failed(IF a.metadata.kind = "dict_without_columns"
                     THEN "KeyError" ELSE "ValueError", NoMsg)
    /\ pc' = "raised"
    /\ UNCHANGED <<loc, calls, warned>>

\* the column the loop is at
CurCol == loc.todo[loc.i]

InLoop == pc = "loop" /\ loc.i <= Len(loc.todo)

\* the loop body for a column the table lacks
StepMissing ==
    /\ InLoop
    /\ ~HasCol(heap[loc.df], CurCol.name)
    /\ out' = Failed("ValueError", [NoMsg EXCEPT !.name = CurCol.name])
    /\ pc' = "raised"
    /\ UNCHANGED <<inp, heap, loc, calls, warned>>

\* the end of the loop body, r the outcome of the column caster called with
\* the policies ne and be: its result is assigned to the column of the
\* working table, or its exception ends the call
Assign(c, ne, be, r) ==
    /\ calls' = Append(calls, [name |-> c.name, num_errors |-> ne, bool_errors |-> be])
    /\ warned' = IF r.warned THEN warned \cup {c.name} ELSE warned
    /\ IF r.raised
       THEN /\ out' = Failed(r.exc, r.msg)
            /\ pc' = "raised"
            /\ UNCHANGED <<inp, heap, loc>>
       ELSE /\ heap' = [heap EXCEPT ![loc.df] =
                           SetCol(@, c.name, Assigned(r, @.data[c.name]))]
            /\ loc' = [loc EXCEPT !.i = @ + 1, !.num_errors = ne, !.bool_errors = be]
            /\ UNCHANGED <<pc, inp, out>>

\* the call of the column caster with the resolved policies
CastWith(c, ne, be) ==
    Assign(c, ne, be,
           cast_pandas_column_to_schema(heap[loc.df].data[c.name], c, inp.flags, ne, be))

\* the loop body for a column of the table: the policies are resolved into
\* the locals num_errors and bool_errors, then the column is cast
StepCast ==
    /\ InLoop
    /\ HasCol(heap[loc.df], CurCol.name)
    /\ CastWith(CurCol,
                ResolveNumErrors(CurCol, inp.num_error_map, loc.num_errors),
                ResolveBoolErrors(CurCol, inp.bool_error_map, loc.bool_errors))

AfterLoop == pc = "loop" /\ loc.i > Len(loc.todo)

\* the columns of final_cols that the table holds are selected and the
\* table is returned, whatever columns it lacks
Project_existing_only(tb, cols) ==
    /\ heap' = Append(heap, SelectCols(tb, SelectSeq(cols, LAMBDA x : HasCol(tb, x))))
    /\ loc' = [loc EXCEPT !.df = Len(heap) + 1]
    /\ out' = Succeeded(SelectCols(tb, SelectSeq(cols, LAMBDA x : HasCol(tb, x))))
    /\ pc' = "returned"
    /\ UNCHANGED <<inp, calls, warned>>

\* df = df[final_cols] and the return; pandas raises KeyError for a name
\* that is no column of df
Project(tb, cols) ==
    IF Range(cols) \subseteq Range(tb.cols)
    THEN /\ heap' = Append(heap, SelectCols(tb, cols))
         /\ loc' = [loc EXCEPT !.df = Len(heap) + 1]
         /\ out' = Succeeded(SelectCols(tb, cols))
         /\ pc' = "returned"
         /\ UNCHANGED <<inp, calls, warned>>
    ELSE /\ out' = Failed("KeyError",
                          [NoMsg EXCEPT !.name =
                              cols[CHOOSE l \in 1..Len(cols) :
                                     /\ ~HasCol(tb, cols[l])
                                     /\ \A l2 \in 1..(l - 1) : HasCol(tb, cols[l2])]])
         /\ pc' = "raised"
         /\ UNCHANGED <<inp, heap, loc, calls, warned>>

\* the statements after the loop
Finish ==
    /\ AfterLoop
    /\ Project(heap[loc.df], final_cols(loc.meta, inp.drop_columns))

(***************************************************************************)
(* The calls of the model.  Every column is an object column of three      *)
(* rows, as read from a text file; a schema lists some of the columns n    *)
(* (integer), flag (boolean), d (date) and st (struct or list), and the    *)
(* table may hold a column x that no schema declares.                      *)
(***************************************************************************)
ColNames == {"n", "flag", "d", "st"}

Descriptor(name, complex) ==
    CASE name = "n" ->
            [name |-> "n", type |-> "int64", type_category |-> "integer",
             datetime_format |-> <<>>, num_errors |-> "", bool_errors |-> ""]
      [] name = "flag" ->
            [name |-> "flag", type |-> "bool_", type_category |-> "boolean",
             datetime_format |-> <<>>, num_errors |-> "", bool_errors |-> ""]
      [] name = "d" ->
            [name |-> "d", type |-> "date32", type_category |-> "timestamp",
             datetime_format |-> <<>>, num_errors |-> "", bool_errors |-> ""]
      [] OTHER ->
            [name |-> name, type |-> complex, type_category |-> complex,
             datetime_format |-> <<>>, num_errors |-> "", bool_errors |-> ""]

ObjV(t) == [k |-> "obj", s |-> t, n |-> 0]

\* the data of a column: "good" converts under every policy, "bad" holds a
\* value that does not convert, "frac" a number that is no integer
ColumnData(name, variant) ==
    CASE name = "n" /\ variant = "good" -> Series("object", <<StrV(<<"1">>), StrV(<<"2">>), StrV(<<"3">>)>>)
      [] name = "n" /\ variant = "bad" -> Series("object", <<StrV(<<"1">>), StrV(<<"2">>), StrV(<<"x">>)>>)
      [] name = "n" /\ variant = "frac" -> Series("object", <<StrV(<<"1">>), StrV(<<"1",".","5">>), Null>>)
      [] name = "flag" /\ variant = "good" -> Series("object", <<StrV(<<"y","e","s">>), StrV(<<"n","o">>), StrV(<<>>)>>)
      [] name = "flag" -> Series("object", <<StrV(<<"y","e","s">>), StrV(<<"n","o">>), StrV(<<"m","a","y","b","e">>)>>)
      [] name = "d" /\ variant = "good" -> Series("object", <<StrV(<<"1","9","7","0","-","0","1","-","0","1">>), StrV(<<"2","0","2","1","-","1","2","-","3","1">>), Null>>)
      [] name = "d" -> Series("object", <<StrV(<<"1","9","7","0","-","0","1","-","0","1">>), StrV(<<"3","1","/","1","2","/","2","0","2","1">>), Null>>)
      [] name = "st" ->
            Series("object", <<ObjV(<<"r","1">>), ObjV(<<"r","2">>), Null>>)
      [] OTHER -> Series("object", <<StrV(<<"u">>), StrV(<<"v">>), StrV(<<"w">>)>>)

Variants(name) ==
    CASE name = "n" -> {"absent", "good", "bad", "frac"}
      [] name = "st" -> {"absent", "good"}
      [] OTHER -> {"absent", "good", "bad"}

\* the sequences of distinct names of S, of length 1..m
RECURSIVE DistinctSeqs(_, _)
DistinctSeqs(S, m) ==
    IF m = 0 THEN {<<>>}
    ELSE LET shorter == DistinctSeqs(S, m - 1)
         IN shorter \cup {Append(q, x) : q \in shorter, x \in S} 

Schemas(S, m) ==
    {q \in DistinctSeqs(S, m) : q # <<>> /\ Cardinality(Range(q)) = Len(q)}

Reverse(q) == [j \in 1..Len(q) |-> q[Len(q) + 1 - j]]

\* the table that holds the columns of names whose variant is not "absent"
TableOf(names, variant) ==
    LET present == SelectSeq(names, LAMBDA x : variant[x] # "absent")
    IN [cols |-> present,
        data |-> [x \in Range(present) |-> ColumnData(x, variant[x])]]

AtMostOne(S) == {{}} \cup {{x} : x \in S}

Args(columns, partitions, ignore_columns, drop_columns, num_errors, bool_errors, num_error_map, bool_error_map) ==
    [metadata |-> [kind |-> "dict", columns |-> columns, partitions |-> partitions],
     ignore_columns |-> ignore_columns,
     drop_columns |-> drop_columns,
     flags |-> DefaultFlags,
     num_error_map |-> num_error_map,
     bool_error_map |-> bool_error_map,
     num_errors |-> num_errors,
     bool_errors |-> bool_errors]

\* a call that varies the schema, the table's columns, their order and
\* data, and the ignored, dropped and partition columns
CallCast ==
    /\ pc = "idle"
    /\ \E names \in Schemas(ColNames, MaxCols), extra, rev \in BOOLEAN,
          complex \in {"struct", "list"}, num_errors \in {"raise", "coerce"},
          variant \in [ColNames \cup {"x"} -> {"absent", "good", "bad", "frac"}] :
         /\ \A x \in Range(names) : variant[x] \in Variants(x)
         /\ \A x \in ColNames \ Range(names) : variant[x] = "absent"
         /\ variant["x"] = IF extra THEN "good" ELSE "absent"
         /\ "st" \notin Range(names) => complex = "struct"
         /\ \E ignore_columns, drop_columns, partitions \in AtMostOne(Range(names)) :
              LET tb == TableOf(Append(names, "x"), variant)
              IN Enter(Args([j \in 1..Len(names) |-> Descriptor(names[j], complex)],
                            partitions, ignore_columns, drop_columns,
                            num_errors, "coerce", NoErrorMap, NoErrorMap),
                       IF rev THEN [tb EXCEPT !.cols = Reverse(@)] ELSE tb)

\* a call whose metadata is not usable
CallInvalid ==
    /\ pc = "idle"
    /\ \E kind \in {"dict_without_columns", "other"} :
        EnterInvalid([Args(<<>>, {}, {}, {}, "raise", "coerce", NoErrorMap, NoErrorMap)
                        EXCEPT !.metadata.kind = kind],
                     TableOf(<<"n">>, [x \in {"n"} |-> "good"]))

PolicyNames == {"n", "flag"}

ErrorMaps(S, policy) ==
    {NoErrorMap} \cup {[none |-> FALSE, map |-> [y \in {x} |-> policy]] : x \in S}

\* a call that varies the error policies: the call-wide arguments, the
\* error maps and the descriptors' own num_errors and bool_errors, on
\* columns whose data converts
CallPolicy ==
    /\ pc = "idle"
    /\ \E names \in Schemas(PolicyNames, MaxCols),
          num_errors \in {"raise", "coerce", "ignore"},
          bool_errors \in {"coerce", "raise"},
          num_error_map \in ErrorMaps(PolicyNames, "coerce"),
          bool_error_map \in ErrorMaps({"flag"}, "raise"),
          own_num \in [PolicyNames -> {"", "raise", "ignore"}],
          own_bool \in [PolicyNames -> {"", "raise", "coerce"}] :
         /\ \A x \in PolicyNames \ Range(names) : own_num[x] = "" /\ own_bool[x] = ""
         /\ Enter(Args([j \in 1..Len(names) |->
                          [Descriptor(names[j], "struct") EXCEPT
                             !.num_errors = own_num[names[j]],
                             !.bool_errors = own_bool[names[j]]]],
                       {}, {}, {}, num_errors, bool_errors,
                       num_error_map, bool_error_map),
                  TableOf(names, [x \in Range(names) |-> "good"]))

Init ==
    /\ pc = "idle"
    /\ inp = <<>>
    /\ out = NoOut
    /\ heap = <<>>
    /\ loc = NoLoc
    /\ calls = <<>>
    /\ warned = {}

Next ==
    \/ CallCast
    \/ CallPolicy
    \/ CallInvalid
    \/ StepMissing
    \/ StepCast
    \/ Finish

Spec == Init /\ [][Next]_vars

(***************************************************************************)
(* Casting twice: a call on a table of text columns and, when it returns,  *)
(* a second call with the same schema and policies on the table returned.  *)
(***************************************************************************)
\* the first call: the schema, the data of its columns, the call-wide
\* policies and the dropped columns vary
CallFirst ==
    /\ pc = "idle"
    /\ \E names \in Schemas(ColNames, MaxCols),
          num_errors \in {"raise", "coerce"}, bool_errors \in {"coerce", "raise"},
          variant \in [ColNames -> {"absent", "good", "bad", "frac"}] :
         /\ \A x \in Range(names) : variant[x] \in Variants(x)
         /\ \A x \in ColNames \ Range(names) : variant[x] = "absent"
         /\ \E drop_columns \in AtMostOne(Range(names)) :
              Enter(Args([j \in 1..Len(names) |-> Descriptor(names[j], "struct")],
                         {}, {}, drop_columns, num_errors, bool_errors,
                         NoErrorMap, NoErrorMap),
                    TableOf(names, variant))

\* the second call: the arguments of the first with the table it returned
CastAgain ==
    /\ pc = "returned"
    /\ "again" \notin DOMAIN inp
    /\ EnterWith([again |-> TRUE] @@ inp, out.table, df_copy(<<out.table>>, 1))

NextRecast ==
    \/ CallFirst
    \/ CastAgain
    \/ StepMissing
    \/ StepCast
    \/ Finish

SpecRecast == Init /\ [][NextRecast]_vars

(***************************************************************************)
(* The boolean converter on its own: _default_str_bool_mapper on one       *)
(* value, convert_to_bool_series on one column.                            *)
(***************************************************************************)
\* the characters of the generated texts
MapAlphabet == {" ", "t", "F", "1", "0", ".", "x"}

\* the texts over A of length at most m
RECURSIVE AllTexts(_, _)
AllTexts(A, m) ==
    IF m = 0 THEN {<<>>}
    ELSE AllTexts(A, m - 1) \cup {Append(q, c) : q \in AllTexts(A, m - 1), c \in A}

\* words beside the generated texts
MapWords ==
    {<<"y","e","s">>,
     <<"Y","e","s">>,
     <<"Y","E","S">>,
     <<" ","y","e","s"," ">>,
     <<"n","o">>,
     <<"N","o">>,
     <<"t","r","u","e">>,
     <<"T","r","u","e">>,
     <<"T","R","U","E">>,
     <<"f","a","l","s","e">>,
     <<"F","a","l","s","e">>,
     <<"f">>,
     <<"m","a","y","b","e">>,
     <<"a","p","p","l","e">>,
     <<"n","a","n">>,
     <<"N","o","n","e">>,
     <<"1",".","0","0">>,
     <<"y">>,
     <<"o","n">>}

\* the values handed to the mapper: texts, and the numbers, booleans and
\* nulls of a column read with inferred types
MapperInputs ==
    {StrV(t) : t \in AllTexts(MapAlphabet, MaxLen) \cup MapWords}
    \cup {IntV(0), IntV(1), IntV(100), FloatV(0), FloatV(10), FloatV(15),
          TrueV, FalseV, Null}

\* the cells of the columns handed to convert_to_bool_series, by dtype
BoolCells(dtype) ==
    CASE dtype = "object" ->
            {StrV(<<"y","e","s">>), StrV(<<" ","N","o">>), StrV(<<"m","a","y","b","e">>),
             StrV(<<>>), Null, TrueV}
      [] dtype = "string" ->
            {StrV(<<"T","r","u","e">>), StrV(<<"f">>), StrV(<<"a","p","p","l","e">>), Null,
             StrV(<<"Y","e","s">>), StrV(<<"N","o">>)}
      [] dtype = "bool" -> {TrueV, FalseV}
      [] dtype = "boolean" -> {TrueV, FalseV, Null}
      [] dtype = "int64" -> {IntV(1), IntV(0), IntV(100)}
      [] OTHER -> {FloatV(10), FloatV(0), FloatV(115), Null}

BoolDtypes == {"object", "string", "bool", "boolean", "int64", "float64"}

SeqsUpTo(S, m) == UNION {[1..l -> S] : l \in 1..m}

\* the custom mapping of the tests: {"Yes": True, "No": False}
YesNoMap ==
    [none |-> FALSE,
     map |-> [t \in {<<"Y","e","s">>, <<"N","o">>} |->
                 IF t = <<"Y","e","s">> THEN TrueV ELSE FalseV]]

\* _default_str_bool_mapper(v, bool_errors) is called
MapValue ==
    /\ pc = "idle"
    /\ \E v \in MapperInputs, bool_errors \in {"coerce", "raise", "ignore"} :
         /\ inp' = [v |-> v, bool_errors |-> bool_errors]
         /\ out' = _default_str_bool_mapper(v, bool_errors)
    /\ pc' = "mapped"
    /\ UNCHANGED <<heap, loc, calls, warned>>

\* convert_to_bool_series(s, pd_boolean, bool_map, bool_errors) is called
ConvertBool ==
    /\ pc = "idle"
    /\ \E dtype \in BoolDtypes, pd_boolean \in BOOLEAN,
          bool_map \in {NoBoolMap, YesNoMap}, bool_errors \in {"coerce", "raise"} :
         \E vals \in SeqsUpTo(BoolCells(dtype), MaxRows) :
            /\ inp' = [s |-> Series(dtype, vals), pd_boolean |-> pd_boolean,
                       bool_map |-> bool_map, bool_errors |-> bool_errors]
            /\ out' = convert_to_bool_series(Series(dtype, vals), pd_boolean,
                                             bool_map, bool_errors)
    /\ pc' = "converted"
    /\ UNCHANGED <<heap, loc, calls, warned>>

\* row labels for n rows: the default RangeIndex, and labels that are
\* neither 0..n-1 nor ascending
Labels(n) == {RangeIndex(n), [j \in 1..n |-> 2 * (n - j) + 5]}

\* the text columns handed to check_bool_mapping_errors
CheckCells ==
    {StrV(<<"y","e","s">>), StrV(<<" ","N","o">>), StrV(<<"m","a","y","b","e">>),
     StrV(<<"A","p","p","l","e">>), StrV(<<>>), Null}

\* check_bool_mapping_errors(series, _default_str_bool_mapper, bool_errors)
\* is called
CheckMapping ==
    /\ pc = "idle"
    /\ \E vals \in SeqsUpTo(CheckCells, MaxRows), bool_errors \in {"coerce", "raise"} :
         \E index \in Labels(Len(vals)) :
            /\ inp' = [s |-> RestoreIndex(Series("object", vals), index),
                       bool_errors |-> bool_errors]
            /\ out' = check_bool_mapping_errors(
                          RestoreIndex(Series("object", vals), index), bool_errors)
    /\ pc' = "checked"
    /\ UNCHANGED <<heap, loc, calls, warned>>

NextBool ==
    \/ MapValue
    \/ ConvertBool
    \/ CheckMapping

SpecBool == Init /\ [][NextBool]_vars

(***************************************************************************)
(* The column caster and the converters on their own: one call of          *)
(* cast_pandas_column_to_schema, convert_str_to_timestamp_series or        *)
(* convert_to_integer_series on one column.                                *)
(***************************************************************************)
\* the day-first format of the calls that give a format
DayFirstFormat == <<"%","d","/","%","m","/","%","Y">>

\* the cells of the columns handed to the column caster, by type_category
ColumnCells(type_category) ==
    CASE type_category \in {"integer", "float"} ->
            {StrV(<<"1">>), StrV(<<"x">>), StrV(<<"1",".","5">>), Null}
      [] type_category = "boolean" ->
            {StrV(<<"y","e","s">>), StrV(<<"T","r","u","e">>),
             StrV(<<"m","a","y","b","e">>), Null}
      [] type_category = "timestamp" ->
            {StrV(<<"1","9","7","0","-","0","1","-","0","1">>),
             StrV(<<"2","0","2","1","-","1","2","-","3","1"," ","2","3",":","5","9",":","5","9">>),
             StrV(<<"3","1","/","1","2","/","2","0","2","1">>),
             StrV(<<>>), Null}
      [] type_category \in {"struct", "list"} -> {ObjV(<<"r","1">>), Null}
      [] OTHER -> {StrV(<<"a">>), Null}

\* the type a descriptor of the category declares
TypesOf(type_category) ==
    CASE type_category = "integer" -> {"int64"}
      [] type_category = "float" -> {"float64"}
      [] type_category = "boolean" -> {"bool_"}
      [] type_category = "string" -> {"string"}
      [] type_category = "timestamp" -> {"date32", "timestamp(s)"}
      [] OTHER -> {type_category}

\* the type categories of the descriptors: the allowed ones, and the
\* categories binary and null of a schema, which the caster does not allow
Categories == _allowed_type_categories \cup {"binary", "null"}

PdTypes == {"datetime_object", "pd_timestamp", "pd_period"}

\* the keyword arguments that the category of the column reads; the others
\* keep their defaults
FlagsFor(type_category) ==
    CASE type_category = "integer" ->
            {[DefaultFlags EXCEPT !.pd_integer = b] : b \in BOOLEAN}
      [] type_category = "boolean" ->
            {[DefaultFlags EXCEPT !.pd_boolean = b] : b \in BOOLEAN}
      [] type_category = "string" ->
            {[DefaultFlags EXCEPT !.pd_string = b] : b \in BOOLEAN}
      [] type_category = "timestamp" ->
            {[DefaultFlags EXCEPT !.pd_date_type = p, !.pd_timestamp_type = p,
                                  !.ts_errors = e] :
                p \in PdTypes, e \in {"raise", "coerce"}}
      [] OTHER -> {DefaultFlags}

NumPolicies(type_category) ==
    IF type_category \in {"integer", "float"} THEN {"raise", "coerce", "ignore"}
    ELSE {"raise"}

BoolPolicies(type_category) ==
    IF type_category = "boolean" THEN {"coerce", "raise"} ELSE {"coerce"}

FormatsOf(type_category) ==
    IF type_category = "timestamp" THEN {<<>>, DayFirstFormat} ELSE {<<>>}

\* cast_pandas_column_to_schema(s, metacol, ...) is called
CastColumn ==
    /\ pc = "idle"
    /\ \E type_category \in Categories :
         \E type \in TypesOf(type_category), flags \in FlagsFor(type_category),
            num_errors \in NumPolicies(type_category),
            bool_errors \in BoolPolicies(type_category),
            datetime_format \in FormatsOf(type_category),
            vals \in SeqsUpTo(ColumnCells(type_category), MaxRows) :
           \E index \in Labels(Len(vals)) :
              /\ inp' = [s |-> RestoreIndex(Series("object", vals), index),
                         metacol |-> [name |-> "c", type |-> type,
                                      type_category |-> type_category,
                                      datetime_format |-> datetime_format,
                                      num_errors |-> "", bool_errors |-> ""],
                         flags |-> flags,
                         num_errors |-> num_errors,
                         bool_errors |-> bool_errors]
              /\ out' = cast_pandas_column_to_schema(
                            RestoreIndex(Series("object", vals), index),
                            [name |-> "c", type |-> type,
                             type_category |-> type_category,
                             datetime_format |-> datetime_format,
                             num_errors |-> "", bool_errors |-> ""],
                            flags, num_errors, bool_errors)
    /\ pc' = "cast"
    /\ UNCHANGED <<heap, loc, calls, warned>>

\* convert_str_to_timestamp_series(s, is_date, pd_type, ts_errors,
\* str_datetime_format) is called
ConvertTimestampSeries ==
    /\ pc = "idle"
    /\ \E is_date \in BOOLEAN, pd_type \in PdTypes \cup {"other"},
          ts_errors \in {"raise", "coerce", "ignore"},
          str_datetime_format \in FormatsOf("timestamp"),
          vals \in SeqsUpTo(ColumnCells("timestamp"), MaxRows) :
         \E index \in Labels(Len(vals)) :
            /\ inp' = [s |-> RestoreIndex(Series("object", vals), index),
                       is_date |-> is_date, pd_type |-> pd_type,
                       ts_errors |-> ts_errors,
                       str_datetime_format |-> str_datetime_format]
            /\ out' = convert_str_to_timestamp_series(
                          RestoreIndex(Series("object", vals), index),
                          is_date, pd_type, ts_errors, str_datetime_format)
    /\ pc' = "ts"
    /\ UNCHANGED <<heap, loc, calls, warned>>

\* convert_to_integer_series(s, pd_integer, num_errors) is called
ConvertInteger ==
    /\ pc = "idle"
    /\ \E pd_integer \in BOOLEAN, num_errors \in {"raise", "coerce", "ignore"},
          vals \in SeqsUpTo(ColumnCells("integer"), MaxRows) :
         \E index \in Labels(Len(vals)) :
            /\ inp' = [s |-> RestoreIndex(Series("object", vals), index),
                       pd_integer |-> pd_integer, num_errors |-> num_errors]
            /\ out' = convert_to_integer_series(
                          RestoreIndex(Series("object", vals), index),
                          pd_integer, num_errors)
    /\ pc' = "int"
    /\ UNCHANGED <<heap, loc, calls, warned>>

NextCol ==
    \/ CastColumn
    \/ ConvertTimestampSeries
    \/ ConvertInteger
    \/ ConvertBool

SpecCol == Init /\ [][NextCol]_vars

(***************************************************************************)
(* The Arrow schema functions (arrow_pd_parser/_arrow_parsers.py).  A      *)
(* field is [name, type], a schema a sequence of fields, in which a name   *)
(* may occur more than once; a table is [schema, columns], columns[i] the  *)
(* values of the i-th column.                                              *)
(***************************************************************************)
\* schema.names
Names(schema) == [i \in 1..Len(schema) |-> schema[i].name]

\* schema.field(name): the field of that name when exactly one field has
\* it, KeyError otherwise
HasOneField(schema, name) == Cardinality({i \in 1..Len(schema) : schema[i].name = name}) = 1

\* update_existing_schema that keeps the fields of current_schema
update_existing_schema_keeps_current(current_schema, new_schema) ==
    [raised |-> FALSE, exc |-> "", schema |-> current_schema]

\* update_existing_schema(current_schema, new_schema): for each field of
\* current_schema in order, new_schema.field(field.name) when the name is
\* in new_schema.names and the field itself otherwise
update_existing_schema(current_schema, new_schema) ==
    IF \E i \in 1..Len(current_schema) :
          /\ \E j \in 1..Len(new_schema) : new_schema[j].name = current_schema[i].name
          /\ ~HasOneField(new_schema, current_schema[i].name)
    THEN [raised |-> TRUE, exc |-> "KeyError", schema |-> <<>>]
    ELSE [raised |-> FALSE, exc |-> "",
          schema |-> [i \in 1..Len(current_schema) |->
                        IF \E j \in 1..Len(new_schema) : new_schema[j].name = current_schema[i].name
                        THEN new_schema[CHOOSE j \in 1..Len(new_schema) :
                                           new_schema[j].name = current_schema[i].name]
                        ELSE current_schema[i]]]

\* pyarrow's cast of one value to a type: a text to int64 when it is a
\* number, an integer to its text
ArrowCastValue(v, type) ==
    CASE v.k = "null" -> [ok |-> TRUE, val |-> Null]
      [] v.k = "str" /\ type = "int64" ->
            IF v.s # <<>> /\ AllDigits(v.s)
            THEN [ok |-> TRUE, val |-> IntV(DigitsVal(v.s))]
            ELSE [ok |-> FALSE, val |-> Null]
      [] v.k = "int" /\ type = "string" -> [ok |-> TRUE, val |-> StrV(NatText(v.n))]
      [] OTHER -> [ok |-> TRUE, val |-> v]

\* tab.cast(target_schema): ValueError when the names of the two schemas
\* differ, ArrowInvalid when a value does not convert, otherwise the table
\* of the columns cast, by position, to the types of target_schema
TableCast(tab, target_schema) ==
    IF Names(tab.schema) # Names(target_schema)
    THEN [raised |-> TRUE, exc |-> "ValueError", tab |-> tab]
    ELSE IF \E i \in 1..Len(tab.columns) : \E r \in 1..Len(tab.columns[i]) :
               ~ArrowCastValue(tab.columns[i][r], target_schema[i].type).ok
    THEN [raised |-> TRUE, exc |-> "ArrowInvalid", tab |-> tab]
    ELSE [raised |-> FALSE, exc |-> "",
          tab |-> [schema |-> target_schema,
                   columns |-> [i \in 1..Len(tab.columns) |->
                                  [r \in 1..Len(tab.columns[i]) |->
                                     ArrowCastValue(tab.columns[i][r], target_schema[i].type).val]]]]

\* a cast that asks for the full schema whatever expect_full_schema says
cast_arrow_table_to_schema_always_full(tab, schema, expect_full_schema) ==
    TableCast(tab, schema)

\* a cast that merges the schemas whatever expect_full_schema says
cast_arrow_table_to_schema_always_merged(tab, schema, expect_full_schema) ==
    IF update_existing_schema(tab.schema, schema).raised
    THEN [raised |-> TRUE, exc |-> update_existing_schema(tab.schema, schema).exc, tab |-> tab]
    ELSE TableCast(tab, update_existing_schema(tab.schema, schema).schema)

\* cast_arrow_table_to_schema(tab, schema, expect_full_schema)
cast_arrow_table_to_schema(tab, schema, expect_full_schema) ==
    IF expect_full_schema THEN TableCast(tab, schema)
    ELSE IF update_existing_schema(tab.schema, schema).raised
    THEN [raised |-> TRUE, exc |-> update_existing_schema(tab.schema, schema).exc, tab |-> tab]
    ELSE TableCast(tab, update_existing_schema(tab.schema, schema).schema)

\* the fields, schemas and one-row tables of the calls
ArrowFields == [name : {"a", "b", "c"}, type : {"string", "int64"}]

ArrowSchemas == {<<>>} \cup SeqsUpTo(ArrowFields, MaxCols)

ArrowCells(type) ==
    IF type = "string" THEN {StrV(<<"1">>), StrV(<<"x">>)} ELSE {IntV(1), Null}

ArrowTables ==
    UNION {{[schema |-> schema, columns |-> [i \in 1..Len(schema) |-> <<cells[i]>>]] :
               cells \in {c \in [1..Len(schema) -> ArrowCells("string") \cup ArrowCells("int64")] :
                             \A i \in 1..Len(schema) : c[i] \in ArrowCells(schema[i].type)}} :
           schema \in {q \in ArrowSchemas : \A i \in 1..Len(q) : q[i].name # "c"}}

\* update_existing_schema(current_schema, new_schema) is called
UpdateSchema ==
    /\ pc = "idle"
    /\ \E current_schema, new_schema \in ArrowSchemas :
         /\ inp' = [current_schema |-> current_schema, new_schema |-> new_schema]
         /\ out' = update_existing_schema(current_schema, new_schema)
    /\ pc' = "updated"
    /\ UNCHANGED <<heap, loc, calls, warned>>

\* cast_arrow_table_to_schema(tab, schema, expect_full_schema) is called
CastArrowTable ==
    /\ pc = "idle"
    /\ \E tab \in ArrowTables, schema \in ArrowSchemas, expect_full_schema \in BOOLEAN :
         /\ inp' = [tab |-> tab, schema |-> schema, expect_full_schema |-> expect_full_schema]
         /\ out' = cast_arrow_table_to_schema(tab, schema, expect_full_schema)
    /\ pc' = "arrowcast"
    /\ UNCHANGED <<heap, loc, calls, warned>>

NextArrow == UpdateSchema \/ CastArrowTable

SpecArrow == Init /\ [][NextArrow]_vars

(***************************************************************************)
(* The file format of a path (arrow_pd_parser/utils.py).  A path and a     *)
(* file_format are texts; a metadata argument is [truthy, file_format],    *)
(* truthy false for None and for an empty dict, file_format <<>> for a dict *)
(* without the key.  An outcome is [kind, format]: kind "format" for a     *)
(* FileFormat returned, "none" for None returned, and the name of the      *)
(* exception raised otherwise.                                             *)
(***************************************************************************)
\* str.upper
StrUpper(t) ==
    [j \in 1..Len(t) |->
        IF \E l \in 1..Len(Lower) : Lower[l] = t[j]
        THEN Upper[CHOOSE l \in 1..Len(Lower) : Lower[l] = t[j]]
        ELSE t[j]]

\* sub in t
Contains(t, sub) ==
    \E i \in 1..(Len(t) - Len(sub) + 1) : SubSeq(t, i, i + Len(sub) - 1) = sub

\* FileFormat.__members__.keys(), in the order of the class body
FileFormatMembers == << <<"P","A","R","Q","U","E","T">>, <<"J","S","O","N">>, <<"C","S","V">> >>

\* match_file_format_to_str(s): the first member whose name is in s.upper(),
\* None when there is none
match_file_format_to_str(s) ==
    IF \E m \in 1..Len(FileFormatMembers) : Contains(StrUpper(s), FileFormatMembers[m])
    THEN [kind |-> "format",
          format |-> FileFormatMembers[CHOOSE m \in 1..Len(FileFormatMembers) :
                        /\ Contains(StrUpper(s), FileFormatMembers[m])
                        /\ \A l \in 1..(m - 1) : ~Contains(StrUpper(s), FileFormatMembers[l])]]
    ELSE [kind |-> "none", format |-> <<>>]

\* os.path.basename: the text after the last "/"
RECURSIVE Basename(_)
Basename(path) ==
    IF \E i \in 1..Len(path) : path[i] = "/" THEN Basename(Tail(path)) ELSE path

\* str.strip(".")
RECURSIVE StripDots(_)
StripDots(t) ==
    IF t # <<>> /\ Head(t) = "." THEN StripDots(Tail(t))
    ELSE IF t # <<>> /\ t[Len(t)] = "." THEN StripDots(SubSeq(t, 1, Len(t) - 1))
    ELSE t

\* str.lstrip(".")
RECURSIVE LStripDots(_)
LStripDots(t) == IF t # <<>> /\ Head(t) = "." THEN LStripDots(Tail(t)) ELSE t

\* str.split(".")
RECURSIVE SplitDots(_)
SplitDots(t) ==
    IF \E i \in 1..Len(t) : t[i] = "."
    THEN LET i == CHOOSE i \in 1..Len(t) : t[i] = "." /\ \A l \in 1..(i - 1) : t[l] # "."
         IN <<SubSeq(t, 1, i - 1)>> \o SplitDots(SubSeq(t, i + 1, Len(t)))
    ELSE <<t>>

\* Path(filename).suffix: the name from its last dot on, unless that dot
\* is the first or the last character of the name
Suffix(name) ==
    IF \E i \in 2..(Len(name) - 1) : name[i] = "." /\ \A l \in (i + 1)..Len(name) : name[l] # "."
    THEN SubSeq(name, CHOOSE i \in 2..(Len(name) - 1) :
                         name[i] = "." /\ \A l \in (i + 1)..Len(name) : name[l] # ".",
                Len(name))
    ELSE <<>>

\* Path(filename).suffixes
Suffixes(name) ==
    IF name # <<>> /\ name[Len(name)] = "." THEN <<>>
    ELSE [j \in 1..(Len(SplitDots(LStripDots(name))) - 1) |->
             <<".">> \o SplitDots(LStripDots(name))[j + 1]]

surplus_suffixes == { <<"t","a","r">>, <<"g","z">>, <<"z","i","p">>, <<"g","z","i","p">>, <<"b","r","o","t","l","i">> }

\* the elif branch: the last suffix that is not a surplus one is matched;
\* exts[-1] raises IndexError when every suffix is a surplus one
MatchLastOf(exts) ==
    IF exts = <<>> THEN [kind |-> "IndexError", format |-> <<>>]
    ELSE match_file_format_to_str(exts[Len(exts)])

NotSurplus(ext) == StrLower(StripDots(ext)) \notin surplus_suffixes

\* infer_file_format_from_filepath(input_file)
infer_file_format_from_filepath(input_file) ==
    IF match_file_format_to_str(StripDots(Suffix(Basename(input_file)))).kind = "format"
    THEN match_file_format_to_str(StripDots(Suffix(Basename(input_file))))
    ELSE IF Len(Suffixes(Basename(input_file))) > 1
    THEN MatchLastOf(SelectSeq(Suffixes(Basename(input_file)), NotSurplus))
    ELSE [kind |-> "FileFormatNotFound", format |-> <<>>]

\* infer_file_format_from_meta(metadata)
infer_file_format_from_meta(metadata) ==
    IF match_file_format_to_str(metadata.file_format).kind = "format"
    THEN match_file_format_to_str(metadata.file_format)
    ELSE [kind |-> "FileFormatNotFound", format |-> <<>>]

\* infer_file_format after the try statement, file_format the value bound
FoundOrRaise(file_format) ==
    IF file_format.kind = "format" THEN file_format
    ELSE [kind |-> "FileFormatNotFound", format |-> <<>>]

\* infer_file_format(input_file, metadata)
infer_file_format(input_file, metadata) ==
    IF infer_file_format_from_filepath(input_file).kind = "FileFormatNotFound"
    THEN IF metadata.truthy
         THEN FoundOrRaise(infer_file_format_from_meta(metadata))
         ELSE [kind |-> "FileFormatNotFound", format |-> <<>>]
    ELSE IF infer_file_format_from_filepath(input_file).kind \in {"format", "none"}
    THEN FoundOrRaise(infer_file_format_from_filepath(input_file))
    ELSE infer_file_format_from_filepath(input_file)

\* longest path of the calls, in pieces
MaxParts == 4

\* the pieces paths are made of
PathPieces == { <<"f">>, <<".">>, <<"/">>, <<"c","s","v">>, <<".","g","z">>, <<"J","s","o","n","l">> }

RECURSIVE Joined(_)
Joined(q) == IF q = <<>> THEN <<>> ELSE Head(q) \o Joined(Tail(q))

\* the metadata arguments: None, a dict without file_format, and dicts
\* with a file_format
Metadatas ==
    {[truthy |-> FALSE, file_format |-> <<>>], [truthy |-> TRUE, file_format |-> <<>>]}
    \cup {[truthy |-> TRUE, file_format |-> f] :
             f \in { <<"p","a","r","q","u","e","t">>, <<"c","s","v">>, <<"b","o","b">> }}

\* infer_file_format(input_file, metadata) is called
InferFileFormat ==
    /\ pc = "idle"
    /\ \E q \in {<<>>} \cup SeqsUpTo(PathPieces, MaxParts), metadata \in Metadatas :
         /\ inp' = [input_file |-> Joined(q), metadata |-> metadata]
         /\ out' = infer_file_format(Joined(q), metadata)
    /\ pc' = "inferred"
    /\ UNCHANGED <<heap, loc, calls, warned>>

(***************************************************************************)
(* The pandas readers (arrow_pd_parser/_readers.py).  PandasCsvReader.read *)
(* and PandasJsonReader.read hold a yield statement, so a call returns a   *)
(* generator and the body runs when the consumer asks for a frame.  The    *)
(* rows of the input are numbered; a frame is [rows, converted]; loc holds *)
(* the generator, out what its consumer has got: the frames yielded and    *)
(* the exception that ended the iteration.                                 *)
(***************************************************************************)
\* the rows in frames of chunksize rows
RECURSIVE Chunks(_, _)
Chunks(rows, chunksize) ==
    IF rows = <<>> THEN <<>>
    ELSE IF Len(rows) <= chunksize THEN <<[rows |-> rows, converted |-> FALSE]>>
    ELSE <<[rows |-> SubSeq(rows, 1, chunksize), converted |-> FALSE]>>
         \o Chunks(SubSeq(rows, chunksize + 1, Len(rows)), chunksize)

\* pd.read_csv / pd.read_json with chunksize: the frames of chunksize
\* rows; a CSV file without data rows gives one empty frame, a JSON-lines
\* file without lines gives none
FramesOf(reader, rows, chunksize) ==
    IF rows = <<>> /\ reader = "PandasCsvReader"
    THEN <<[rows |-> <<>>, converted |-> FALSE]>>
    ELSE Chunks(rows, chunksize)

\* self._convert_or_cast_frame(...) called with the keyword arguments
\* given: the method has the parameters df and metadata, neither with a
\* default, so that a call without one of them raises TypeError
_convert_or_cast_frame(df, given) ==
    IF {"df", "metadata"} \subseteq given
    THEN [exc |-> "", df |-> [df EXCEPT !.converted = TRUE]]
    ELSE [exc |-> "TypeError", df |-> df]

\* the for statement of read over the frames of df_iter, df the value the
\* name df is bound to (unbound before the first frame): each frame is
\* bound to df and converted, and the result bound to df again
RECURSIVE ForEachFrame(_, _)
ForEachFrame(df_iter, df) ==
    IF df_iter = <<>> THEN [exc |-> "", df |-> df]
    ELSE IF _convert_or_cast_frame(Head(df_iter), {"df"}).exc # ""
    THEN [exc |-> _convert_or_cast_frame(Head(df_iter), {"df"}).exc, df |-> df]
    ELSE ForEachFrame(Tail(df_iter),
                      [bound |-> TRUE, value |-> _convert_or_cast_frame(Head(df_iter), {"df"}).df])

Unbound == [bound |-> FALSE, value |-> <<>>]

\* the body of read up to its first yield or its end: with is_iterable the
\* loop and then "yield df" after it (UnboundLocalError when df was never
\* bound); without, the whole file read as one frame, converted, and
\* returned, which ends the generator without a frame
ReadBody(df_iter, rows, is_iterable) ==
    IF is_iterable
    THEN IF ForEachFrame(df_iter, Unbound).exc # ""
         THEN [yielded |-> <<>>, exc |-> ForEachFrame(df_iter, Unbound).exc]
         ELSE IF ~ForEachFrame(df_iter, Unbound).df.bound
         THEN [yielded |-> <<>>, exc |-> "UnboundLocalError"]
         ELSE [yielded |-> <<ForEachFrame(df_iter, Unbound).df.value>>, exc |-> ""]
    ELSE [yielded |-> <<>>,
          exc |-> _convert_or_cast_frame([rows |-> rows, converted |-> FALSE], {"df"}).exc]

\* PandasCsvReader.read / PandasJsonReader.read is called: the generator
\* is made, nothing of the body has run
ReadCall ==
    /\ pc = "idle"
    /\ \E reader \in {"PandasCsvReader", "PandasJsonReader"}, k \in 0..MaxRows,
          chunksize \in 1..2, is_iterable \in BOOLEAN :
         inp' = [reader |-> reader, rows |-> [i \in 1..k |-> i],
                 chunksize |-> chunksize, is_iterable |-> is_iterable]
    /\ pc' = "generator"
    /\ UNCHANGED <<out, heap, loc, calls, warned>>

\* the consumer iterates over the generator until it is exhausted or
\* raises
ReadAll ==
    /\ pc = "generator"
    /\ out' = ReadBody(FramesOf(inp.reader, inp.rows, inp.chunksize), inp.rows, inp.is_iterable)
    /\ pc' = "consumed"
    /\ UNCHANGED <<inp, heap, loc, calls, warned>>

(***************************************************************************)
(* The text file writers (arrow_pd_parser/_writers.py).  A frame is the    *)
(* sequence of its rows; df is a DataFrame or an iterator of DataFrames,   *)
(* as the docstring of write has it.  heap is the text of the output file, *)
(* line by line, loc.df the iterator that write holds, calls the calls of  *)
(* _write, out.opened whether the output has been opened.                  *)
(***************************************************************************)
MaxChunks == 2

\* the lines the file holds before the call
OldText == <<"old">>

\* every chunk gets the header line
to_csv_always_header(df_out, header) == <<"header">> \o df_out

\* df_out.to_csv(f, header=header): the lines appended to f
to_csv(df_out, header) == (IF header THEN <<"header">> ELSE <<>>) \o df_out

\* PandasCsvWriter._write(df, f, metadata, first_chunk)
_write(df, first_chunk) ==
    /\ heap' = heap \o to_csv(df, first_chunk)
    /\ calls' = Append(calls, [df |-> df, first_chunk |-> first_chunk])

WriterFrames == {<<>>, <<"a">>, <<"b">>, <<"a", "b">>}

\* kwargs.get("mode", "w"), "" for a call without mode
ModeOf(mode) == IF mode = "" THEN "w" ELSE mode

\* writer.write(df, output_path, mode=mode) is called: the check of the
\* mode, and a single DataFrame made an iterator
WriteCall ==
    /\ pc = "idle"
    /\ \E kind \in {"DataFrame", "iterator"}, mode \in {"", "w", "a", "r"},
          chunks \in {<<>>} \cup SeqsUpTo(WriterFrames, MaxChunks) :
         /\ kind = "DataFrame" => Len(chunks) = 1
         /\ inp' = [kind |-> kind, chunks |-> chunks, mode |-> mode]
         /\ loc' = [df |-> chunks]
         /\ IF ModeOf(mode) # "w"
            THEN /\ out' = [exc |-> "ValueError", opened |-> FALSE]
                 /\ pc' = "rejected"
            ELSE /\ out' = [exc |-> "", opened |-> FALSE]
                 /\ pc' = "open"
    /\ heap' = OldText
    /\ calls' = <<>>
    /\ UNCHANGED warned

\* with smart_open.open(output_path, "w") as f: the file is emptied
WriteOpen ==
    /\ pc = "open"
    /\ out' = [out EXCEPT !.opened = TRUE]
    /\ heap' = <<>>
    /\ pc' = "first"
    /\ UNCHANGED <<inp, loc, calls, warned>>

\* self._write(next(df), f, metadata, first_chunk=True); next raises
\* StopIteration when the iterator has no frame
WriteFirst ==
    /\ pc = "first"
    /\ IF loc.df = <<>>
       THEN /\ out' = [out EXCEPT !.exc = "StopIteration"]
            /\ pc' = "stopped"
            /\ UNCHANGED <<heap, loc, calls>>
       ELSE /\ _write(Head(loc.df), TRUE)
            /\ loc' = [df |-> Tail(loc.df)]
            /\ pc' = "rest"
            /\ UNCHANGED out
    /\ UNCHANGED <<inp, warned>>

\* for chunk in df: self._write(chunk, f, metadata, first_chunk=False)
WriteRest ==
    /\ pc = "rest"
    /\ loc.df # <<>>
    /\ _write(Head(loc.df), FALSE)
    /\ loc' = [df |-> Tail(loc.df)]
    /\ UNCHANGED <<pc, inp, out, warned>>

\* the iterator is exhausted: the file is closed and write returns
WriteClose ==
    /\ pc = "rest"
    /\ loc.df = <<>>
    /\ pc' = "written"
    /\ UNCHANGED <<inp, out, heap, loc, calls, warned>>

NextFiles ==
    \/ InferFileFormat
    \/ ReadCall
    \/ ReadAll
    \/ WriteCall
    \/ WriteOpen
    \/ WriteFirst
    \/ WriteRest
    \/ WriteClose

SpecFiles == Init /\ [][NextFiles]_vars

(***************************************************************************)
(* Properties of the boolean converter, under SpecBool.                    *)
(***************************************************************************)
\* the trimmed, lower-cased text of a value
Normalised(v) == StrLower(StrStrip(PyStr(v)))

\* v is a non-null value that the default mapping table does not hold
Unmapped(v) ==
    /\ ~IsNa(v)
    /\ Normalised(v) # <<>>
    /\ Normalised(v) \notin TrueTokens \cup FalseTokens

\* the column of the call is a string or a numeric column
StringOrNumeric(s) ==
    \/ s.dtype \in {"int64", "float64"}
    \/ /\ s.dtype \in {"object", "string"}
       /\ \E j \in 1..Len(s.vals) : s.vals[j].k = "str"

\* C4 as claimed: convert_to_bool_series with bool_errors="raise" and no
\* bool_map raises ValueError, and returns nothing, for a string or numeric
\* column that holds a non-null value outside the default mapping table.
C4_RaisesValueError ==
    ( /\ pc = "converted"
      /\ inp.pd_boolean
      /\ inp.bool_map.none
      /\ inp.bool_errors = "raise"
      /\ StringOrNumeric(inp.s)
      /\ \E j \in 1..Len(inp.s.vals) : Unmapped(inp.s.vals[j]) )
    => out.raised /\ out.exc = "ValueError"

\* the mapper called under "coerce" or "raise"
MappedUnder(policies) == pc = "mapped" /\ inp.bool_errors \in policies

\* C5, the part on which claim and code agree: a value whose trimmed,
\* lower-cased text is yes/true/t/1/1.0 goes to true, one whose text is
\* no/false/f/0/0.0 to false, null to null, and a value whose text is none
\* of these and not blank goes to null under "coerce" and raises a
\* ValueError carrying that text under "raise".
C5_Tokens ==
    MappedUnder({"coerce", "raise"}) =>
        /\ IsNa(inp.v) => out = Returned(Null)
        /\ (~IsNa(inp.v) /\ Normalised(inp.v) \in TrueTokens) => out = Returned(TrueV)
        /\ (~IsNa(inp.v) /\ Normalised(inp.v) \in FalseTokens) => out = Returned(FalseV)
        /\ (Unmapped(inp.v) /\ inp.bool_errors = "coerce") => out = Returned(Null)
        /\ (Unmapped(inp.v) /\ inp.bool_errors = "raise")
              => out = RaisedValueError(Normalised(inp.v))

\* C5 as claimed: beside the above, only the empty string and null go to
\* null under both policies; every other value, a blank text too, raises
\* under "raise".
C5_OnlyEmptyIsNull ==
    C5_Tokens /\
    ( MappedUnder({"raise"}) =>
        (out = Returned(Null) <=> (IsNa(inp.v) \/ inp.v = StrV(<<>>))) )

\* C5 as amended: a value whose trimmed text is empty (the empty string or
\* a text of white space only) goes to null under both policies, as null
\* does, and under "raise" no other value goes to null.
C5_BlankIsNull ==
    C5_Tokens /\
    ( MappedUnder({"coerce", "raise"}) =>
        /\ (~IsNa(inp.v) /\ Normalised(inp.v) = <<>>) => out = Returned(Null)
        /\ inp.bool_errors = "raise" =>
              (out = Returned(Null) <=> (IsNa(inp.v) \/ Normalised(inp.v) = <<>>)) )

\* the mapper has trimmed and lower-cased a token, has raised for an
\* unknown text and has sent a blank text to null, all under "raise"
C5_Witness ==
    /\ MappedUnder({"raise"})
    /\ \/ inp.v = StrV(<<" ","t"," ">>) /\ out = Returned(TrueV)
       \/ inp.v = StrV(<<"F">>) /\ out = Returned(FalseV)
       \/ inp.v = StrV(<<" ","x">>) /\ out = RaisedValueError(<<"x">>)
       \/ inp.v = StrV(<<" "," ">>) /\ out = Returned(Null)

(***************************************************************************)
(* Properties of the table caster, under Spec.                             *)
(***************************************************************************)
\* a call of cast_pandas_table_to_schema with usable metadata is under way
\* or over
Called_ == pc \in {"loop", "returned", "raised"} /\ inp.metadata.kind = "dict"

\* the call is over
Done == pc \in {"returned", "raised"} /\ inp.metadata.kind = "dict"

\* the names the call excludes from its output
Excluded == inp.drop_columns \cup inp.metadata.partitions

\* the schema columns named in none of ignore_columns, drop_columns and the
\* partitions, in schema order
ToCast ==
    SelectSeq(inp.metadata.columns,
              LAMBDA c : c.name \notin inp.ignore_columns \cup Excluded)

\* the descriptor of the schema column called name
SchemaCol(name) == CHOOSE c \in Range(inp.metadata.columns) : c.name = name

\* column-level key, else the entry of the error map, else the call-wide
\* argument
Precedence(c, key, map_dict, call_wide) ==
    IF c[key] # "" THEN c[key]
    ELSE IF ~map_dict.none /\ c.name \in DOMAIN map_dict.map
    THEN map_dict.map[c.name]
    ELSE call_wide

\* C1 as claimed: every column handed to the column caster is handed the
\* num_errors and bool_errors that the precedence column-level key > error
\* map > call-wide argument gives, for every call-wide value.
C1_PolicyByPrecedence ==
    Called_ =>
        \A l \in 1..Len(calls) :
            /\ calls[l].num_errors =
                  Precedence(SchemaCol(calls[l].name), "num_errors",
                             inp.num_error_map, inp.num_errors)
            /\ calls[l].bool_errors =
                  Precedence(SchemaCol(calls[l].name), "bool_errors",
                             inp.bool_error_map, inp.bool_errors)

\* num_errors="coerce", bool_errors="coerce", no error map, no column-level
\* key, a schema of integer and boolean columns
CoerceCall ==
    /\ inp.num_errors = "coerce"
    /\ inp.bool_errors = "coerce"
    /\ inp.num_error_map.none
    /\ inp.bool_error_map.none
    /\ \A c \in Range(inp.metadata.columns) :
          /\ c.num_errors = ""
          /\ c.bool_errors = ""
          /\ c.type_category \in {"integer", "boolean"}

\* w is what "coerce" is to make of the value v of a column of the category
Coerced(type_category, v, w) ==
    IF IsNa(v) THEN IsNa(w)
    ELSE IF type_category = "integer"
    THEN /\ ~ParseNumber(PyStr(v)).ok => w = Null
         /\ (PyStr(v) # <<>> /\ AllDigits(PyStr(v))) => w = IntV(DigitsVal(PyStr(v)))
    ELSE /\ Normalised(v) \in TrueTokens => w = TrueV
         /\ Normalised(v) \in FalseTokens => w = FalseV
         /\ Normalised(v) \notin TrueTokens \cup FalseTokens => w = Null

\* C2 as claimed: under num_errors="coerce" and bool_errors="coerce" no value
\* of an integer or boolean column makes the cast fail, and in the table
\* returned a value that does not parse or map is null at its row and every
\* other value is converted.
C2_CoerceNeverFails ==
    (Done /\ CoerceCall) =>
        /\ out.exc # "PandasCastError"
        /\ pc = "returned" =>
              \A l \in 1..Len(calls) :
                 \A j \in 1..Len(inp.df.data[calls[l].name].vals) :
                    Coerced(SchemaCol(calls[l].name).type_category,
                            inp.df.data[calls[l].name].vals[j],
                            out.table.data[calls[l].name].vals[j])

\* the loop is at a column of the table whose converter raises
ConverterRaises ==
    /\ InLoop
    /\ HasCol(heap[loc.df], CurCol.name)
    /\ Convert(heap[loc.df].data[CurCol.name], CurCol, inp.flags,
               ResolveNumErrors(CurCol, inp.num_error_map, loc.num_errors),
               ResolveBoolErrors(CurCol, inp.bool_error_map, loc.bool_errors)).raised

\* C3: when the converter of a column raises, the call ends there with a
\* PandasCastError that carries the column's name, type_category and type,
\* and returns no table.
C3_CastErrorAborts ==
    [][ConverterRaises =>
          /\ pc' = "raised"
          /\ out' = [kind |-> "raised",
                     exc |-> "PandasCastError",
                     msg |-> [name |-> CurCol.name,
                              type_category |-> CurCol.type_category,
                              type |-> CurCol.type],
                     table |-> EmptyTable]]_vars

\* an integer column with a text that is no number has been cast under
\* "raise", and a date column with a text that does not match its format
C3_Witness ==
    /\ pc = "raised"
    /\ out.exc = "PandasCastError"
    /\ \/ /\ out.msg = [name |-> "n", type_category |-> "integer", type |-> "int64"]
          /\ inp.df.data["n"] = ColumnData("n", "bad")
          /\ calls[Len(calls)].num_errors = "raise"
       \/ /\ out.msg = [name |-> "d", type_category |-> "timestamp", type |-> "date32"]
          /\ inp.df.data["d"] = ColumnData("d", "bad")

\* the place in ToCast of the first column the caller's table lacks, 0 when
\* it lacks none
FirstMissing ==
    IF \E l \in 1..Len(ToCast) : ~HasCol(inp.df, ToCast[l].name)
    THEN CHOOSE l \in 1..Len(ToCast) :
            /\ ~HasCol(inp.df, ToCast[l].name)
            /\ \A l2 \in 1..(l - 1) : HasCol(inp.df, ToCast[l2].name)
    ELSE 0

\* C6 as claimed: a call on a table that lacks a column to cast fails with
\* an error that names a missing column, whatever the other columns hold.
C6_NamesMissingColumn ==
    (Done /\ FirstMissing # 0) =>
        /\ pc = "raised"
        /\ out.exc = "ValueError"
        /\ \E l \in 1..Len(ToCast) :
              ~HasCol(inp.df, ToCast[l].name) /\ out.msg.name = ToCast[l].name

\* the column caster raises for the l-th column handed to it
CastRaised(l) ==
    cast_pandas_column_to_schema(inp.df.data[calls[l].name], SchemaCol(calls[l].name),
                                 inp.flags, calls[l].num_errors,
                                 calls[l].bool_errors).raised

\* C6 as amended: the call fails; the columns to cast are taken in schema
\* order up to the first that is missing or fails to cast, and the error is
\* that column's: a ValueError naming the missing column when every column
\* before it was cast without error, the PandasCastError of the failed
\* column otherwise.
C6_FirstFailureWins ==
    (Done /\ FirstMissing # 0) =>
        /\ pc = "raised"
        /\ Len(calls) < FirstMissing
        /\ \A l \in 1..Len(calls) : calls[l].name = ToCast[l].name
        /\ \A l \in 1..(Len(calls) - 1) : ~CastRaised(l)
        /\ IF Len(calls) > 0 /\ CastRaised(Len(calls))
           THEN /\ out.exc = "PandasCastError"
                /\ out.msg.name = ToCast[Len(calls)].name
           ELSE /\ Len(calls) = FirstMissing - 1
                /\ out.exc = "ValueError"
                /\ out.msg.name = ToCast[FirstMissing].name

\* the second column to cast is missing and the first has been cast
C6_Witness ==
    /\ Done
    /\ FirstMissing = 2
    /\ Len(calls) = 1
    /\ out.exc = "ValueError"
    /\ out.msg.name = ToCast[2].name

\* the names of the schema's columns that are neither dropped nor
\* partitions, in schema order
KeptNames ==
    [l \in 1..Len(SelectSeq(inp.metadata.columns, LAMBDA c : c.name \notin Excluded)) |->
        SelectSeq(inp.metadata.columns, LAMBDA c : c.name \notin Excluded)[l].name]

\* C7: the columns of the table returned are the schema's columns in schema
\* order without the dropped and the partition columns, whatever the order
\* of the input table, and no undeclared column of the table is among them.
C7_SchemaOrder ==
    (Done /\ pc = "returned") =>
        /\ out.table.cols = KeptNames
        /\ DOMAIN out.table.data = Range(KeptNames)
        /\ "x" \notin Range(out.table.cols)

\* a table whose columns come in the reverse of the schema order, with an
\* undeclared column in front, has been cast
C7_Witness ==
    /\ Done
    /\ pc = "returned"
    /\ Len(inp.metadata.columns) = 2
    /\ inp.df.cols = <<"x", inp.metadata.columns[2].name, inp.metadata.columns[1].name>>
    /\ out.table.cols = <<inp.metadata.columns[1].name, inp.metadata.columns[2].name>>

NotCast(c) ==
    \/ c.name \in inp.ignore_columns
    \/ c.type_category \in {"struct", "list"}

\* C9: a column that is not cast is in the output with the values and type
\* of the input; a struct or list column handed to the column caster is
\* warned about and never the cause of a cast error.
C9_UncastUntouched ==
    Called_ =>
        /\ pc = "returned" =>
              \A c \in Range(inp.metadata.columns) :
                 (NotCast(c) /\ c.name \in Range(out.table.cols)) =>
                     out.table.data[c.name] = inp.df.data[c.name]
        /\ \A l \in 1..Len(calls) :
              SchemaCol(calls[l].name).type_category \in {"struct", "list"} =>
                  /\ calls[l].name \in warned
                  /\ ~(pc = "raised" /\ l = Len(calls) /\ out.exc = "PandasCastError")
        /\ \A name \in warned :
              SchemaCol(name).type_category \in {"struct", "list"}

\* a table with a struct or list column and an ignored column of texts that
\* would not convert has been cast
C9_Witness ==
    /\ Done
    /\ pc = "returned"
    /\ "st" \in warned
    /\ "st" \in Range(out.table.cols)
    /\ out.table.data["st"] = ColumnData("st", "good")
    /\ \E name \in inp.ignore_columns \cap Range(out.table.cols) :
          /\ name # "st"
          /\ out.table.data[name] = ColumnData(name, "bad")

\* C10: the columns handed to the column caster are the schema columns in
\* none of ignore_columns, drop_columns and the partitions, each once and
\* in schema order; a dropped or partition column is not in the output and
\* no failure of the call is about it.
C10_CastIffNotExcluded ==
    Called_ =>
        /\ Len(calls) <= Len(ToCast)
        /\ \A l \in 1..Len(calls) : calls[l].name = ToCast[l].name
        /\ pc = "returned" =>
              /\ Len(calls) = Len(ToCast)
              /\ Range(out.table.cols) \cap Excluded = {}
        /\ pc = "raised" => out.msg.name \notin Excluded

\* a call has returned although one dropped column held a text that does
\* not convert under "raise", or was a partition column the table lacks
C10_Witness ==
    /\ Done
    /\ pc = "returned"
    /\ Len(calls) = 1
    /\ inp.num_errors = "raise"
    /\ \/ /\ inp.drop_columns = {"n"}
          /\ HasCol(inp.df, "n")
          /\ inp.df.data["n"] = ColumnData("n", "bad")
       \/ /\ inp.metadata.partitions = {"n"}
          /\ ~HasCol(inp.df, "n")

\* the rows of the column of the call that hold a non-null value outside
\* the default mapping table
UnmappedRows == {j \in 1..Len(inp.s.vals) : Unmapped(inp.s.vals[j])}

\* C11 as claimed: for every kind of input column and under "coerce" and
\* "raise", a null of the input is null at the same row of the column
\* convert_to_bool_series returns, and the values reported as unmappable are
\* the non-null values outside the mapping table, never a null.
C11_NullStaysNull ==
    (pc = "converted" /\ inp.pd_boolean) =>
        /\ ~out.raised
        /\ ~out.retexc =>
              /\ Len(out.series.vals) = Len(inp.s.vals)
              /\ \A j \in 1..Len(inp.s.vals) :
                    IsNa(inp.s.vals[j]) => IsNa(out.series.vals[j])
        /\ (out.retexc /\ inp.bool_map.none) =>
              Len(out.errs) = Cardinality(UnmappedRows)
        /\ (inp.bool_map.none /\ UnmappedRows = {}) => ~out.retexc

\* the custom map of the call covers the value v of its column: a numeric
\* column is mapped as text
Covered(v) ==
    /\ inp.s.dtype \in {"int64", "float64"} \/ v.k = "str"
    /\ PyStr(v) \in DOMAIN inp.bool_map.map

\* C12 as claimed: with a custom bool_map every value of a string or
\* numeric column is mapped through the map, a value the map does not cover
\* becomes null under "coerce", and under "raise" a non-null value the map
\* does not cover makes convert_to_bool_series fail with ValueError.
C12_CustomMapFollowsPolicy ==
    (pc = "converted" /\ inp.pd_boolean /\ ~inp.bool_map.none /\ StringOrNumeric(inp.s)) =>
        IF /\ inp.bool_errors = "raise"
           /\ \E j \in 1..Len(inp.s.vals) : ~IsNa(inp.s.vals[j]) /\ ~Covered(inp.s.vals[j])
        THEN out.raised /\ out.exc = "ValueError"
        ELSE /\ ~out.raised
             /\ ~out.retexc
             /\ \A j \in 1..Len(inp.s.vals) :
                   out.series.vals[j] =
                      IF Covered(inp.s.vals[j])
                      THEN inp.bool_map.map[PyStr(inp.s.vals[j])]
                      ELSE Null

\* the part of C12 that holds: under "coerce" every covered value is mapped
\* through the custom map and every other value is null
C12_CoerceWithCustomMap ==
    (pc = "converted" /\ inp.pd_boolean /\ ~inp.bool_map.none /\ StringOrNumeric(inp.s)
        /\ inp.bool_errors = "coerce") =>
        /\ ~out.raised
        /\ ~out.retexc
        /\ \A j \in 1..Len(inp.s.vals) :
              out.series.vals[j] =
                 IF Covered(inp.s.vals[j])
                 THEN inp.bool_map.map[PyStr(inp.s.vals[j])]
                 ELSE Null

\* the texts the mapper looks up for the values among vals[1..j] that are
\* not null and outside the default mapping table, in row order
RECURSIVE UnmappedTexts(_, _)
UnmappedTexts(vals, j) ==
    IF j = 0 THEN <<>>
    ELSE IF Unmapped(vals[j]) THEN Append(UnmappedTexts(vals, j - 1), Normalised(vals[j]))
    ELSE UnmappedTexts(vals, j - 1)

\* what the default table makes of a value under "coerce"
DefaultMapped(v) ==
    IF ~IsNa(v) /\ Normalised(v) \in TrueTokens THEN TrueV
    ELSE IF ~IsNa(v) /\ Normalised(v) \in FalseTokens THEN FalseV
    ELSE Null

\* C13: check_bool_mapping_errors maps every row before it reports: under
\* "raise" it raises, once, exactly when some value is unmappable, and the
\* error lists the unmappable values of all rows in row order, its count
\* being their number; under "coerce" it raises nothing; a column it
\* returns has one mapped value per row and the index of the input.
C13_AllRowsThenOneError ==
    pc = "checked" =>
        /\ out.casting_errors =
              IF inp.bool_errors = "raise"
              THEN UnmappedTexts(inp.s.vals, Len(inp.s.vals))
              ELSE <<>>
        /\ out.raised <=> (inp.bool_errors = "raise" /\ UnmappedRows # {})
        /\ Len(out.casting_errors) =
              IF inp.bool_errors = "raise" THEN Cardinality(UnmappedRows) ELSE 0
        /\ ~out.raised =>
              /\ out.result.index = inp.s.index
              /\ Len(out.result.vals) = Len(inp.s.vals)
              /\ \A j \in 1..Len(inp.s.vals) :
                    out.result.vals[j] = DefaultMapped(inp.s.vals[j])

\* a column whose two rows are both unmappable, labelled other than 0, 1,
\* has been checked under "raise", and both values are reported in row order
C13_Witness ==
    /\ pc = "checked"
    /\ inp.bool_errors = "raise"
    /\ inp.s.index # RangeIndex(2)
    /\ inp.s.vals = <<StrV(<<"m","a","y","b","e">>), StrV(<<"A","p","p","l","e">>)>>
    /\ out.raised
    /\ out.casting_errors = << <<"m","a","y","b","e">>, <<"a","p","p","l","e">> >>

(***************************************************************************)
(* Properties of the column caster and the converters, under SpecCol.      *)
(***************************************************************************)
\* the call asks for a representation that is not implemented: the legacy
\* boolean type, or periods for a date or timestamp column
AsksNotImplemented ==
    \/ pc = "converted" /\ ~inp.pd_boolean
    \/ pc = "ts" /\ inp.pd_type = "pd_period"
    \/ /\ pc = "cast"
       /\ \/ inp.metacol.type_category = "boolean" /\ ~inp.flags.pd_boolean
          \/ /\ inp.metacol.type_category = "timestamp"
             /\ inp.flags.pd_date_type = "pd_period"

UnknownCategoryCall ==
    /\ pc = "cast"
    /\ inp.metacol.type_category \notin
          {"integer", "float", "boolean", "string", "timestamp", "struct", "list"}

AllParse ==
    \A j \in 1..Len(inp.s.vals) :
        IsNa(inp.s.vals[j]) \/ ParseNumber(PyStr(inp.s.vals[j])).ok

\* every value of the column of the call is the text of a whole number
AllWhole ==
    \A j \in 1..Len(inp.s.vals) :
        ~IsNa(inp.s.vals[j]) /\ AllDigits(PyStr(inp.s.vals[j]))

\* some value of the column of the call is a number with a fractional part
SomeFraction ==
    \E j \in 1..Len(inp.s.vals) :
        /\ ~IsNa(inp.s.vals[j])
        /\ ParseNumber(PyStr(inp.s.vals[j])).ok
        /\ ~AllDigits(PyStr(inp.s.vals[j]))

IsText(v) == v.k = "str" /\ v.s # <<>>

\* the text v matches the format
Matches(v, fmt) == Strptime(fmt, v.s, ZeroFields).ok

\* the format the claim has the call parse with: the one given, else the
\* default of the kind of column
ClaimedFormat ==
    IF inp.str_datetime_format # <<>> THEN inp.str_datetime_format
    ELSE IF inp.is_date THEN <<"%","Y","-","%","m","-","%","d">>
    ELSE <<"%","Y","-","%","m","-","%","d"," ","%","H",":","%","M",":","%","S">>

\* the call parsed its column with the format fmt: under "raise" it raised
\* exactly when a text does not match fmt, under "coerce" it returned null
\* exactly for the nulls, the empty texts and the texts that do not match,
\* and a value it returned for a text is the date and time fmt reads in it
ParsedWith(fmt) ==
    /\ inp.ts_errors = "raise" =>
          (out.raised <=>
              \E j \in 1..Len(inp.s.vals) :
                 IsText(inp.s.vals[j]) /\ ~Matches(inp.s.vals[j], fmt))
    /\ inp.ts_errors = "coerce" => ~out.raised
    /\ (~out.raised /\ inp.ts_errors \in {"raise", "coerce"}) =>
          \A j \in 1..Len(inp.s.vals) :
             IF IsText(inp.s.vals[j]) /\ Matches(inp.s.vals[j], fmt)
             THEN /\ ~IsNa(out.series.vals[j])
                  /\ SubSeq(out.series.vals[j].s, 1, 10) =
                        IsoDate(Strptime(fmt, inp.s.vals[j].s, ZeroFields))
             ELSE IsNa(out.series.vals[j])

\* C17 as claimed: in the datetime_object and in the pd_timestamp
\* representation the column is parsed with the format given, and with
\* "%Y-%m-%d" (date column) or "%Y-%m-%d %H:%M:%S" (datetime column) when
\* none is given.
C17_DefaultFormats ==
    (pc = "ts" /\ inp.pd_type \in {"datetime_object", "pd_timestamp"}) =>
        ParsedWith(ClaimedFormat)

\* every text of the column of the call matches the format
AllMatch(fmt) ==
    \A j \in 1..Len(inp.s.vals) :
        IsText(inp.s.vals[j]) => Matches(inp.s.vals[j], fmt)

\* C17 as amended: a format that is given is the format parsed with in both
\* representations; when none is given, the datetime_object representation
\* parses with the default of the kind of column, while the pd_timestamp
\* representation hands no format to pandas, so that a column of ISO dates
\* and a column of ISO datetimes are both parsed whether is_date is set or
\* not.
C17_DefaultsForObjectsOnly ==
    pc = "ts" =>
        /\ (inp.pd_type = "datetime_object" \/
            (inp.pd_type = "pd_timestamp" /\ inp.str_datetime_format # <<>>))
              => ParsedWith(ClaimedFormat)
        /\ ( /\ inp.pd_type = "pd_timestamp"
             /\ inp.str_datetime_format = <<>>
             /\ inp.ts_errors \in {"raise", "coerce"}
             /\ \/ AllMatch(<<"%","Y","-","%","m","-","%","d">>)
                \/ AllMatch(<<"%","Y","-","%","m","-","%","d"," ","%","H",":","%","M",":","%","S">>) )
              => /\ ~out.raised
                 /\ \A j \in 1..Len(inp.s.vals) :
                       IsText(inp.s.vals[j]) <=> ~IsNa(out.series.vals[j])

\* a date column holding an ISO datetime has been parsed as pd_timestamp
\* with no format given, and a date column holding a day-first date with
\* the day-first format given
C17_Witness ==
    /\ pc = "ts"
    /\ inp.pd_type = "pd_timestamp"
    /\ inp.is_date
    /\ inp.ts_errors = "raise"
    /\ ~out.raised
    /\ \/ /\ inp.str_datetime_format = <<>>
          /\ inp.s.vals = <<StrV(<<"2","0","2","1","-","1","2","-","3","1"," ","2","3",":","5","9",":","5","9">>)>>
          /\ out.series.vals = <<DateTimeV(<<"2","0","2","1","-","1","2","-","3","1"," ","2","3",":","5","9",":","5","9">>)>>
       \/ /\ inp.str_datetime_format = <<"%","d","/","%","m","/","%","Y">>
          /\ inp.s.vals = <<StrV(<<"3","1","/","1","2","/","2","0","2","1">>)>>

\* a text of the column of the call does not match the format
SomeUnparsable(fmt) ==
    \E j \in 1..Len(inp.s.vals) : IsText(inp.s.vals[j]) /\ ~Matches(inp.s.vals[j], fmt)

\* the object the datetime_object representation holds for a text that
\* matches the format: a date for a date column, a datetime otherwise
ObjectOf(v, fmt) ==
    IF inp.is_date
    THEN DateV(IsoDate(Strptime(fmt, v.s, ZeroFields)))
    ELSE DateTimeV(IsoDateTime(Strptime(fmt, v.s, ZeroFields)))

\* the returned column holds None at the rows of the nulls, the empty texts
\* and the texts that do not match, and the parsed object at every other row
NullWhereUnparsable(fmt) ==
    /\ Len(out.series.vals) = Len(inp.s.vals)
    /\ \A j \in 1..Len(inp.s.vals) :
          out.series.vals[j] =
             IF IsText(inp.s.vals[j]) /\ Matches(inp.s.vals[j], fmt)
             THEN ObjectOf(inp.s.vals[j], fmt)
             ELSE Null

\* C18 as claimed: in the datetime_object representation an unparsable or
\* empty value becomes null at its row while the other values are parsed,
\* and a parsed value of a date column is a date without a time.
C18_UnparsableBecomesNull ==
    (pc = "ts" /\ inp.pd_type = "datetime_object") =>
        /\ ~out.raised
        /\ NullWhereUnparsable(ClaimedFormat)

\* C18 as amended: in the datetime_object representation a null or an empty
\* value becomes null at its row under every policy; an unparsable value
\* becomes null at its row only under ts_errors = "coerce", makes the
\* conversion fail with ValueError under "raise" and with AttributeError
\* under "ignore"; when the conversion returns, the other values are
\* parsed, a date column holding dates without a time.
C18_NullOnlyUnderCoerce ==
    (pc = "ts" /\ inp.pd_type = "datetime_object") =>
        /\ out.raised <=> (SomeUnparsable(ClaimedFormat) /\ inp.ts_errors # "coerce")
        /\ out.raised =>
              out.exc = IF inp.ts_errors = "raise" THEN "ValueError" ELSE "AttributeError"
        /\ ~out.raised => NullWhereUnparsable(ClaimedFormat)

\* a date column with a text that does not parse and a text that does has
\* been converted under "coerce": null at the one row, a date at the other
C18_Witness ==
    /\ pc = "ts"
    /\ inp.pd_type = "datetime_object"
    /\ inp.is_date
    /\ inp.ts_errors = "coerce"
    /\ ~out.raised
    /\ \E j, l \in 1..Len(inp.s.vals) :
          /\ IsText(inp.s.vals[j])
          /\ ~Matches(inp.s.vals[j], ClaimedFormat)
          /\ out.series.vals[j] = Null
          /\ IsText(inp.s.vals[l])
          /\ out.series.vals[l].k = "date"
          /\ Len(out.series.vals[l].s) = 10

\* the returned column has one value per row of the column of the call and
\* carries its index labels, in its order
SameRows ==
    /\ Len(out.value.vals) = Len(inp.s.vals)
    /\ out.value.index = inp.s.index

\* C19: cast_pandas_column_to_schema either raises or returns a column with
\* one value per input row, in the input's row order and with the input's
\* index labels, for every type category, representation and error policy.
C19_RaisesOrSameRows ==
    pc = "cast" => (out.raised \/ (~out.retexc /\ SameRows))

\* the part of C19 that holds: a column that is returned has the rows and
\* the index labels of the input, the datetime_object path included
C19_ReturnedColumnSameRows ==
    (pc = "cast" /\ ~out.raised /\ ~out.retexc) => SameRows

\* a boolean column with a value outside the mapping table was cast under
\* bool_errors = "raise": nothing was raised and no column was returned
C19_ReturnedException ==
    /\ pc = "cast"
    /\ inp.metacol.type_category = "boolean"
    /\ inp.bool_errors = "raise"
    /\ ~out.raised
    /\ out.retexc

\* the second call on the table the first returned has ended
Recast == "again" \in DOMAIN inp /\ pc \in {"returned", "raised"}

\* C20: when cast_pandas_table_to_schema(T, S, P) succeeds with result R,
\* casting R with the same S and P succeeds and returns a table equal to R
\* in column order, types and values.
C20_RecastIsNoOp ==
    Recast => (pc = "returned" /\ out.table = inp.df)

\* a column of the table holds an exception object
HoldsException(tb) ==
    \E name \in Range(tb.cols) :
        \E j \in 1..Len(tb.data[name].vals) : tb.data[name].vals[j].k = "exc"

\* the part of C20 that holds: a result none of whose columns holds an
\* exception object is returned unchanged by the second cast
C20_NoOpOnColumns ==
    (Recast /\ ~HoldsException(inp.df)) => (pc = "returned" /\ out.table = inp.df)

\* the second cast of a table with a cast integer, boolean or date column
\* has returned
C20_Recast ==
    /\ Recast
    /\ pc = "returned"
    /\ ~HoldsException(inp.df)
    /\ \E name \in Range(inp.df.cols) : inp.df.data[name].dtype # "object"

\* a column of texts, none empty, has been cast under the policy of its
\* category that fails for a text that represents no value of it, with no
\* datetime format given, and the cast returned its column
CastOfTexts ==
    /\ pc = "cast"
    /\ inp.metacol.type_category \in {"integer", "float", "boolean", "timestamp"}
    /\ inp.metacol.datetime_format = <<>>
    /\ inp.metacol.type_category \in {"integer", "float"} => inp.num_errors = "raise"
    /\ inp.metacol.type_category = "boolean" => inp.bool_errors = "raise"
    /\ inp.metacol.type_category = "timestamp" => inp.flags.ts_errors = "raise"
    /\ \A j \in 1..Len(inp.s.vals) : IsText(inp.s.vals[j])
    /\ ~out.raised
    /\ ~out.retexc

\* the cast column with every value turned into its string form
Restrung == Like(out.value, "object", [j \in 1..Len(out.value.vals) |-> StrV(PyStr(out.value.vals[j]))])

\* C21 as claimed: for a column of strings that represent integer, float,
\* boolean or date/datetime values in the default formats, the string form
\* of each cast value is the original string of the cell.
C21_RoundTripRecoversStrings ==
    CastOfTexts =>
        \A j \in 1..Len(inp.s.vals) : PyStr(out.value.vals[j]) = inp.s.vals[j].s

\* C21 as amended: casting the string forms of the cast values gives the
\* cast values again; the original string of a boolean cell is recovered
\* exactly when it is "True" or "False", the forms str gives, a float
\* cell "1" comes back as "1.0" and a date cell cast to pd_timestamp comes
\* back with the time 00:00:00.
C21_RoundTripRecoversValues ==
    CastOfTexts =>
        /\ cast_pandas_column_to_schema(Restrung, inp.metacol, inp.flags, inp.num_errors, inp.bool_errors) = out
        /\ inp.metacol.type_category = "boolean" =>
              \A j \in 1..Len(inp.s.vals) :
                 (PyStr(out.value.vals[j]) = inp.s.vals[j].s)
                    <=> inp.s.vals[j].s \in {<<"T","r","u","e">>, <<"F","a","l","s","e">>}
        /\ inp.metacol.type_category = "float" =>
              \A j \in 1..Len(inp.s.vals) :
                 inp.s.vals[j].s = <<"1">> => PyStr(out.value.vals[j]) = <<"1",".","0">>
        /\ (inp.metacol.type = "date32" /\ inp.flags.pd_date_type = "pd_timestamp") =>
              \A j \in 1..Len(inp.s.vals) :
                 Len(inp.s.vals[j].s) = 10 =>
                    PyStr(out.value.vals[j]) = inp.s.vals[j].s \o <<" ","0","0",":","0","0",":","0","0">>

\* a boolean column holding "yes" and "True" has been cast: the string
\* form of the second value is its cell, that of the first is not
C21_Witness ==
    /\ CastOfTexts
    /\ inp.metacol.type_category = "boolean"
    /\ inp.s.vals = <<StrV(<<"y","e","s">>), StrV(<<"T","r","u","e">>)>>
    /\ PyStr(out.value.vals[1]) = <<"T","r","u","e">>
    /\ PyStr(out.value.vals[2]) = <<"T","r","u","e">>

(***************************************************************************)
(* Properties of the Arrow schema functions, under SpecArrow.              *)
(***************************************************************************)
\* the schema has a field of that name
HasName(schema, name) == \E j \in 1..Len(schema) : schema[j].name = name

\* the schema merged is Arrow schema A with, at each position, the field of
\* B of the same name when B has one and A's own field otherwise
MergedByName(merged, A, B) ==
    /\ Len(merged) = Len(A)
    /\ Names(merged) = Names(A)
    /\ \A i \in 1..Len(A) :
          IF HasName(B, A[i].name)
          THEN \E j \in 1..Len(B) : B[j].name = A[i].name /\ merged[i] = B[j]
          ELSE merged[i] = A[i]
    /\ \A j \in 1..Len(B) : ~HasName(A, B[j].name) => ~HasName(merged, B[j].name)

\* C22 as claimed: for all schemas A and B, update_existing_schema(A, B)
\* has the length and the name order of A, holds at each position B's
\* field when B has a field of that name and A's own otherwise, and holds
\* no name that occurs only in B.
C22_MergedForAllSchemas ==
    pc = "updated" =>
        /\ ~out.raised
        /\ MergedByName(out.schema, inp.current_schema, inp.new_schema)

\* a name of A that more than one field of B has
Ambiguous(A, B) ==
    \E i \in 1..Len(A) : HasName(B, A[i].name) /\ ~HasOneField(B, A[i].name)

\* C22 as amended: when no name of A is the name of more than one field of
\* B, update_existing_schema(A, B) is A merged by name with B as claimed;
\* when a name of A is the name of several fields of B, the call fails with
\* KeyError.
C22_MergedUnlessAmbiguous ==
    pc = "updated" =>
        IF Ambiguous(inp.current_schema, inp.new_schema)
        THEN out.raised /\ out.exc = "KeyError"
        ELSE ~out.raised /\ MergedByName(out.schema, inp.current_schema, inp.new_schema)

\* a schema with a field that B retypes and a field that B lacks has been
\* merged with a B that has a field of its own
C22_Witness ==
    /\ pc = "updated"
    /\ ~out.raised
    /\ \E i, l \in 1..Len(inp.current_schema) :
          /\ HasName(inp.new_schema, inp.current_schema[i].name)
          /\ out.schema[i] # inp.current_schema[i]
          /\ ~HasName(inp.new_schema, inp.current_schema[l].name)
    /\ \E j \in 1..Len(inp.new_schema) : ~HasName(inp.current_schema, inp.new_schema[j].name)

\* a value of a column of the table that the target schema lists does not
\* convert to the type the target gives the column
SomeValueFails(tab, schema) ==
    \E i \in 1..Len(tab.schema) : \E j \in 1..Len(schema) : \E r \in 1..Len(tab.columns[i]) :
        /\ schema[j].name = tab.schema[i].name
        /\ ~ArrowCastValue(tab.columns[i][r], schema[j].type).ok

\* C23: cast_arrow_table_to_schema with expect_full_schema false returns
\* the table's columns in the table's order, a column that the target lists
\* with the target's type, an unlisted column with its own type and values;
\* a target column absent from the table adds no column and causes no
\* failure: the call fails only when a listed name is ambiguous in the
\* target or a value of a listed column does not convert.
C23_PartialSchemaCast ==
    (pc = "arrowcast" /\ ~inp.expect_full_schema) =>
        /\ out.raised => \/ Ambiguous(inp.tab.schema, inp.schema)
                         \/ SomeValueFails(inp.tab, inp.schema)
        /\ ~out.raised =>
              /\ Names(out.tab.schema) = Names(inp.tab.schema)
              /\ Len(out.tab.columns) = Len(inp.tab.columns)
              /\ \A i \in 1..Len(inp.tab.schema) :
                    IF HasName(inp.schema, inp.tab.schema[i].name)
                    THEN \E j \in 1..Len(inp.schema) :
                            /\ inp.schema[j].name = inp.tab.schema[i].name
                            /\ out.tab.schema[i] = inp.schema[j]
                            /\ out.tab.columns[i] =
                                  [r \in 1..Len(inp.tab.columns[i]) |->
                                     ArrowCastValue(inp.tab.columns[i][r], inp.schema[j].type).val]
                    ELSE /\ out.tab.schema[i] = inp.tab.schema[i]
                         /\ out.tab.columns[i] = inp.tab.columns[i]

\* a table with a text column that the target lists as int64 and a column
\* that it does not list has been cast to a target with a column that the
\* table lacks
C23_Witness ==
    /\ pc = "arrowcast"
    /\ ~inp.expect_full_schema
    /\ ~out.raised
    /\ \E i, l \in 1..Len(inp.tab.schema) :
          /\ HasName(inp.schema, inp.tab.schema[i].name)
          /\ inp.tab.schema[i].type = "string"
          /\ out.tab.schema[i].type = "int64"
          /\ out.tab.columns[i] = <<IntV(1)>>
          /\ ~HasName(inp.schema, inp.tab.schema[l].name)
    /\ \E j \in 1..Len(inp.schema) : ~HasName(inp.tab.schema, inp.schema[j].name)

\* the target schema has no field for a column of the table
OmitsColumn(tab, schema) ==
    \E i \in 1..Len(tab.schema) : ~HasName(schema, tab.schema[i].name)

\* C24: cast_arrow_table_to_schema with expect_full_schema true casts the
\* table to the target schema itself: it fails, with ValueError, whenever
\* the target omits a column of the table, and a table that it returns has
\* the target schema and the values of the table cast to the target types.
C24_FullSchemaCast ==
    (pc = "arrowcast" /\ inp.expect_full_schema) =>
        /\ OmitsColumn(inp.tab, inp.schema) => (out.raised /\ out.exc = "ValueError")
        /\ ~out.raised =>
              /\ out.tab.schema = inp.schema
              /\ \A i \in 1..Len(inp.tab.columns) : \A r \in 1..Len(inp.tab.columns[i]) :
                    out.tab.columns[i][r] =
                       ArrowCastValue(inp.tab.columns[i][r], inp.schema[i].type).val

\* a table of two columns has been cast to a target that lists one of them
C24_Witness ==
    /\ pc = "arrowcast"
    /\ inp.expect_full_schema
    /\ Len(inp.tab.schema) = 2
    /\ Len(inp.schema) = 1
    /\ HasName(inp.tab.schema, inp.schema[1].name)
    /\ OmitsColumn(inp.tab, inp.schema)
    /\ out.raised

(***************************************************************************)
(* Properties of the file format inference, under SpecFiles.               *)
(***************************************************************************)
\* the format the path yields, <<>> when it yields none
PathFormat ==
    IF infer_file_format_from_filepath(inp.input_file).kind = "format"
    THEN infer_file_format_from_filepath(inp.input_file).format
    ELSE <<>>

\* the format the metadata yields, <<>> when it yields none
MetaFormat ==
    IF inp.metadata.truthy /\ infer_file_format_from_meta(inp.metadata).kind = "format"
    THEN infer_file_format_from_meta(inp.metadata).format
    ELSE <<>>

\* C25: infer_file_format returns the format of the path's extension
\* whenever the path yields one, whatever the metadata declares; it
\* returns the format of the metadata's file_format whenever the path
\* yields none; it raises FileFormatNotFound when neither yields one; and
\* there is no other outcome.
C25_PathThenMetadata ==
    pc = "inferred" =>
        IF PathFormat # <<>> THEN out = [kind |-> "format", format |-> PathFormat]
        ELSE IF MetaFormat # <<>> THEN out = [kind |-> "format", format |-> MetaFormat]
        ELSE out = [kind |-> "FileFormatNotFound", format |-> <<>>]

\* the part of C25 that holds: a format that the path yields is returned
\* whatever the metadata declares, and a path without any suffix, or with
\* one suffix that names no format, falls back to the metadata
C25_PathWins ==
    pc = "inferred" =>
        /\ PathFormat # <<>> => out = [kind |-> "format", format |-> PathFormat]
        /\ (PathFormat = <<>> /\ Len(Suffixes(Basename(inp.input_file))) <= 1) =>
              out = IF MetaFormat # <<>> THEN [kind |-> "format", format |-> MetaFormat]
                    ELSE [kind |-> "FileFormatNotFound", format |-> <<>>]

\* a path whose suffixes are all compression suffixes has been given with
\* a metadata that declares a format
C25_AllSurplus ==
    /\ pc = "inferred"
    /\ inp.input_file = <<"f",".","g","z",".","g","z">>
    /\ MetaFormat = <<"C","S","V">>
    /\ out.kind = "IndexError"

(***************************************************************************)
(* Properties of the pandas readers, under SpecFiles.                      *)
(***************************************************************************)
\* C26: reading in chunks (is_iterable true, chunksize n) yields one
\* converted frame per chunk of the input, in input order, so that the
\* frames yielded hold together the rows of the input in their order.
C26_OneFramePerChunk ==
    (pc = "consumed" /\ inp.is_iterable) =>
        /\ out.exc = ""
        /\ out.yielded =
              [j \in 1..Len(FramesOf(inp.reader, inp.rows, inp.chunksize)) |->
                  [FramesOf(inp.reader, inp.rows, inp.chunksize)[j] EXCEPT !.converted = TRUE]]

\* an input of two rows has been read in chunks of one: the iteration
\* ended with TypeError and no frame
C26_NoFrame ==
    /\ pc = "consumed"
    /\ inp.is_iterable
    /\ Len(inp.rows) = 2
    /\ inp.chunksize = 1
    /\ out.exc = "TypeError"
    /\ out.yielded = <<>>

(***************************************************************************)
(* Further properties of the table caster, under Spec.                     *)
(***************************************************************************)
\* C27: the error policies that cast_pandas_table_to_schema hands to the
\* column caster for a column are those it resolves from the column's
\* descriptor, the error maps and the call-wide arguments of the call,
\* whatever columns precede the column in the schema.
C27_PolicyIndependentOfOrder ==
    Called_ =>
        \A l \in 1..Len(calls) :
            /\ calls[l].num_errors =
                  ResolveNumErrors(SchemaCol(calls[l].name), inp.num_error_map, inp.num_errors)
            /\ calls[l].bool_errors =
                  ResolveBoolErrors(SchemaCol(calls[l].name), inp.bool_error_map, inp.bool_errors)

\* the part of C27 that holds: the first column cast is handed the
\* policies resolved from the arguments of the call
C27_FirstColumnPolicy ==
    (Called_ /\ calls # <<>>) =>
        /\ calls[1].num_errors =
              ResolveNumErrors(SchemaCol(calls[1].name), inp.num_error_map, inp.num_errors)
        /\ calls[1].bool_errors =
              ResolveBoolErrors(SchemaCol(calls[1].name), inp.bool_error_map, inp.bool_errors)

\* a column without any override has been cast after a column whose
\* descriptor sets num_errors, and was handed the policy of that column
C27_Leaked ==
    /\ Called_
    /\ Len(calls) = 2
    /\ inp.num_errors = "coerce"
    /\ inp.num_error_map.none
    /\ SchemaCol(calls[1].name).num_errors = "ignore"
    /\ SchemaCol(calls[2].name).num_errors = ""
    /\ calls[2].num_errors = "ignore"

(***************************************************************************)
(* Further properties of the default mapper, under SpecBool.               *)
(***************************************************************************)
\* the value is a recognised token, an empty text or a null
Recognised(v) == IsNa(v) \/ InBasicMap(s_str(v))

\* C28: _default_str_bool_mapper returns true, false or null or raises
\* ValueError, for every value and every bool_errors of raise, coerce and
\* ignore, and for a recognised token, an empty text or a null it returns
\* the same value under all three policies.
C28_SameUnderAllPolicies ==
    pc = "mapped" =>
        /\ out.val \in {TrueV, FalseV, Null}
        /\ Recognised(inp.v) =>
              \A bool_errors \in {"coerce", "raise", "ignore"} :
                  out = _default_str_bool_mapper(inp.v, bool_errors)

\* the part of C28 that holds: the mapper returns true, false or null or
\* raises, and a recognised value gives the same result under raise and
\* coerce
C28_TrueFalseOrNull ==
    pc = "mapped" =>
        /\ out.val \in {TrueV, FalseV, Null}
        /\ (Recognised(inp.v) /\ inp.bool_errors # "ignore") =>
              \A bool_errors \in {"coerce", "raise"} :
                  out = _default_str_bool_mapper(inp.v, bool_errors)

\* the token "yes" has been mapped under ignore and the mapper returned
\* null, where coerce and raise return true
C28_TokenLost ==
    /\ pc = "mapped"
    /\ inp.v = StrV(<<"y","e","s">>)
    /\ inp.bool_errors = "ignore"
    /\ out = Returned(Null)
    /\ _default_str_bool_mapper(inp.v, "coerce") = Returned(TrueV)
    /\ _default_str_bool_mapper(inp.v, "raise") = Returned(TrueV)

(***************************************************************************)
(* Ignored columns that the table lacks, under Spec.                       *)
(***************************************************************************)
\* the names of the schema columns that are ignored, neither dropped nor
\* partitions, and that the table of the call lacks
IgnoredAbsent ==
    {c.name : c \in {d \in Range(inp.metadata.columns) :
                        /\ d.name \in inp.ignore_columns
                        /\ d.name \notin inp.drop_columns
                        /\ d.name \notin inp.metadata.partitions
                        /\ ~HasCol(inp.df, d.name)}}

\* C29: every column of the table that cast_pandas_table_to_schema returns
\* is a column of the table it was given, and a call whose schema has an
\* ignored column (neither dropped nor a partition) that the table lacks
\* does not return: it ends with an exception.
C29_IgnoredAbsentFails ==
    (Called_ /\ pc \in {"returned", "raised"}) =>
        /\ pc = "returned" => Range(out.table.cols) \subseteq Range(inp.df.cols)
        /\ IgnoredAbsent # {} => pc = "raised"

\* a call whose only missing column is ignored has cast another column and
\* has ended with the KeyError of df[final_cols] that names the ignored
\* column
C29_Witness ==
    /\ Called_
    /\ pc = "raised"
    /\ IgnoredAbsent # {}
    /\ calls # <<>>
    /\ out.exc = "KeyError"
    /\ out.msg.name \in IgnoredAbsent

(***************************************************************************)
(* Properties of the text file writer, under SpecFiles.                    *)
(***************************************************************************)
InWrite == pc \in {"rejected", "open", "first", "stopped", "rest", "written"}

\* the frames the iterator has handed out so far
Consumed == SubSeq(inp.chunks, 1, Len(inp.chunks) - Len(loc.df))

\* the rows of the frames, in the order of the frames
RECURSIVE RowsOf(_)
RowsOf(frames) == IF frames = <<>> THEN <<>> ELSE Head(frames) \o RowsOf(Tail(frames))

\* C30: DataFrameTextFileWriter.write hands the frames of its input to
\* _write in the order of the iterator, the first with first_chunk true
\* and every later one with first_chunk false, so the CSV file written
\* from one or more frames is the header line followed by the rows of the
\* frames in order, without any other header line; a single DataFrame is
\* written as one frame; and a mode other than "w" is rejected with
\* ValueError before the output is opened and before a frame is consumed.
C30_ChunksInOrderHeaderOnce ==
    InWrite =>
        /\ loc.df = SubSeq(inp.chunks, Len(inp.chunks) - Len(loc.df) + 1, Len(inp.chunks))
        /\ calls = [j \in 1..Len(Consumed) |-> [df |-> Consumed[j], first_chunk |-> j = 1]]
        /\ pc \in {"rest", "written"} =>
              /\ Consumed # <<>>
              /\ heap = <<"header">> \o RowsOf(Consumed)
              /\ \A j \in 2..Len(heap) : heap[j] # "header"
        /\ pc = "written" =>
              /\ Consumed = inp.chunks
              /\ inp.kind = "DataFrame" => Len(calls) = 1
        /\ ModeOf(inp.mode) # "w" =>
              /\ pc = "rejected"
              /\ out = [exc |-> "ValueError", opened |-> FALSE]
              /\ heap = OldText
              /\ Consumed = <<>>
        /\ pc = "rejected" => ModeOf(inp.mode) # "w"

\* an iterator of two frames with rows has been written: the file holds
\* the header and the rows of the first frame, then those of the second
C30_Witness ==
    /\ pc = "written"
    /\ inp.kind = "iterator"
    /\ inp.chunks = << <<"a", "b">>, <<"b">> >>
    /\ heap = <<"header", "a", "b", "b">>
    /\ calls = << [df |-> <<"a", "b">>, first_chunk |-> TRUE],
                  [df |-> <<"b">>, first_chunk |-> FALSE] >>

\* a call with mode "a" has been rejected, the output not opened
C30_Rejected ==
    /\ pc = "rejected"
    /\ inp.mode = "a"
    /\ out.exc = "ValueError"
    /\ ~out.opened
    /\ heap = OldText
    /\ loc.df = inp.chunks

====
